---- MODULE Spec2Model ----
(***************************************************************************)
(* Model of portfolio-aws-org-guardduty:                                   *)
(*   src/discovery/discover.py            (discovery, configuration merge) *)
(*   src/discovery/state_sync.py          (Reconciler: Terraform imports)  *)
(*   src/post-deployment/verify-guardduty.py   (Verifier)                  *)
(* The three programs are separate processes that share two things: the    *)
(* hand-off file bootstrap.auto.tfvars.json and the Terraform state.  Each *)
(* has its own specification (SpecDiscovery, SpecSync, SpecVerify).        *)
(*                                                                         *)
(* Python values: a dict is a function whose DOMAIN is the set of keys     *)
(* present; None is the string None; a list is a sequence.                 *)
(***************************************************************************)
EXTENDS Integers, Sequences, FiniteSets, TLC

(***************************************************************************)
(* Bounds of the model.                                                    *)
(***************************************************************************)
\* Length of the prefix of the 17-entry region list that is swept.
NumRegions == 2
\* Reconciler: how many targets of one behaviour may deviate from "the
\* resource exists and every call works" (resource absent, session refused,
\* API error, terraform failure, state list failure).
MaxDeviations == 1
\* Verifier: how many checks of one run may return something else than ok.
MaxFindings == 2

(***************************************************************************)
(* Python helpers.                                                         *)
(***************************************************************************)
None == "<None>"

EmptyDict == <<>>

\* dict.get(k, default)
Get(d, k, default) == IF k \in DOMAIN d THEN d[k] ELSE default

\* truth value of a str-or-None
Truthy(v) == v # None /\ v # ""

\* a or b, on str-or-None values
PyOr(a, b) == IF Truthy(a) THEN a ELSE b

Range(s) == {s[i] : i \in DOMAIN s}

RECURSIVE SeqOf(_)
\* some enumeration of a finite set, as a sequence (the lines of a listing)
SeqOf(S) == IF S = {} THEN <<>>
            ELSE LET x == CHOOSE y \in S : TRUE IN <<x>> \o SeqOf(S \ {x})

RECURSIVE Join(_, _)
\* sep.join(parts)
Join(parts, sep) ==
    IF Len(parts) = 0 THEN ""
    ELSE IF Len(parts) = 1 THEN parts[1]
    ELSE parts[1] \o sep \o Join(Tail(parts), sep)

(***************************************************************************)
(* Regions.  A region name is kept as its dash-separated parts, so that    *)
(* str.replace("-", "_") can be computed.                                  *)
(***************************************************************************)
RegionParts ==
    << <<"us", "east", "1">>, <<"us", "east", "2">>, <<"us", "west", "1">>,
       <<"us", "west", "2">>, <<"eu", "west", "1">>, <<"eu", "west", "2">>,
       <<"eu", "west", "3">>, <<"eu", "central", "1">>, <<"eu", "north", "1">>,
       <<"ap", "southeast", "1">>, <<"ap", "southeast", "2">>,
       <<"ap", "northeast", "1">>, <<"ap", "northeast", "2">>,
       <<"ap", "northeast", "3">>, <<"ap", "south", "1">>,
       <<"ca", "central", "1">>, <<"sa", "east", "1">> >>

ALL_REGIONS == [i \in 1..NumRegions |-> Join(RegionParts[i], "-")]

\* region.replace("-", "_")
region_to_module_suffix(region) ==
    LET i == CHOOSE j \in 1..Len(RegionParts) : Join(RegionParts[j], "-") = region
    IN  Join(RegionParts[i], "_")

(***************************************************************************)
(* Account IDs and configuration values used as inputs.                    *)
(***************************************************************************)
ManagementId == "000000000000"
CfgAuditId   == "111111111111"
SsmAuditId   == "222222222222"
LogArchiveId == "333333333333"
OtherId      == "999999999999"
CfgRegion    == "eu-west-1"
SsmRegion    == "us-west-2"
DefaultRegion == "us-east-1"

VARIABLES
    \* ---- discover.py
    d_pc,            \* position in discover.main
    config,          \* config.yaml, as loaded
    ssm_config,      \* result of read_ssm_org_config
    merged,          \* the merged values (lines 174-178)
    guardduty_info,  \* result of discover_guardduty_org_config
    d_calls,         \* API operations issued so far
    d_files,         \* hand-off files written
    d_rc,            \* return code of main, -1 while running
    \* ---- the hand-off file bootstrap.auto.tfvars.json
    tfvars,
    \* ---- state_sync.py
    s_pc, s_run, s_i, s_a,
    tfstate,         \* the Terraform state (set of resource addresses)
    world,           \* what exists in AWS, as far as probed
    state_resources, \* snapshot returned by get_state_resources
    imported_count, skipped_count, failed_count,
    unrecorded_count,\* history: targets of the category that bumped no counter
    tracked_seen,    \* history: addresses recognised as already in state
    calls,           \* calls issued by the last step
    outcome,         \* what the last step recorded for its target
    s_out,           \* summary line printed by the last step
    deviations,      \* history: deviations so far (bounded)
    first_run,       \* history: how the first run went
    list_ok,         \* history: whether this run's state list succeeded
    s_rc,
    \* ---- verify-guardduty.py
    v_pc, v_i, v_a,
    issues, warnings,            \* the two lists, by their lengths
    admin_ok, admin_missing, admin_wrong, admin_errors,
    org_ok, org_partial, org_missing, org_errors,
    det_ok, det_missing, det_errors,
    pub_ok, pub_unhealthy, pub_missing, pub_errors,
    result,          \* result of the last check_* call
    probe,           \* history: what the last check was and under which identity
    findings,        \* history: non-ok results so far (bounded)
    verdict, v_rc

discVars == <<d_pc, config, ssm_config, merged, guardduty_info, d_calls, d_files, d_rc>>

syncVars == <<s_pc, s_run, s_i, s_a, tfstate, world, state_resources,
              imported_count, skipped_count, failed_count, unrecorded_count,
              tracked_seen, calls, outcome, s_out, deviations, first_run,
              list_ok, s_rc>>

tallyVars == <<admin_ok, admin_missing, admin_wrong, admin_errors,
               org_ok, org_partial, org_missing, org_errors,
               det_ok, det_missing, det_errors,
               pub_ok, pub_unhealthy, pub_missing, pub_errors>>

verVars == <<v_pc, v_i, v_a, issues, warnings, tallyVars, result, probe,
             findings, verdict, v_rc>>

vars == <<discVars, tfvars, syncVars, verVars>>

(***************************************************************************)
(* Responses of the external services.  A boto3 call either returns, or    *)
(* raises botocore's ClientError (an error response of the service), or    *)
(* raises something else (no response at all: endpoint unreachable, no     *)
(* credentials), which no "except ClientError" clause catches.             *)
(***************************************************************************)
Ok(v)            == [kind |-> "ok", val |-> v]
ClientError(c)   == [kind |-> "client_error", val |-> c]
OtherException   == [kind |-> "exception", val |-> "EndpointConnectionError"]
Failures         == {ClientError("AccessDeniedException"), OtherException}

NoFile == [exists |-> FALSE, content |-> EmptyDict]

(***************************************************************************)
(* discover.py                                                             *)
(***************************************************************************)
\* Tags are modelled by their keys.  "expires" is a tag written in
\* config.yaml as a plain date (expires: 2026-01-01): yaml.safe_load makes it
\* a datetime.date, which json.dump cannot encode.
DateTags == {"expires"}

\* config.yaml as load_config returns it (lines 18-29): every key optional
ConfigChoices ==
    { p @@ r @@ a @@ t :
        p \in {EmptyDict, "resource_prefix" :> "", "resource_prefix" :> "acme"},
        r \in {EmptyDict, "primary_region" :> "", "primary_region" :> CfgRegion},
        a \in {EmptyDict, "audit_account_id" :> "", "audit_account_id" :> CfgAuditId},
        t \in {EmptyDict, "tags" :> {}, "tags" :> {"owner"}, "tags" :> {"expires"}} }

\* the JSON value of the SSM parameter /<prefix>/org-baseline/config
SsmValues ==
    { r @@ a @@ t @@ x :
        r \in {EmptyDict, "primary_region" :> "", "primary_region" :> SsmRegion},
        a \in {EmptyDict, "audit_account_id" :> "", "audit_account_id" :> SsmAuditId},
        t \in {EmptyDict, "tags" :> {}, "tags" :> {"team"}},
        x \in {EmptyDict,
               ("log_archive_account_id" :> LogArchiveId) @@ ("organization_id" :> "o-abc123")} }

SsmResponses == {Ok(v) : v \in SsmValues}
                \cup {ClientError("ParameterNotFound"), ClientError("AccessDeniedException")}

\* read_ssm_org_config (lines 125-146): the parsed value, or {} on ClientError
read_ssm_org_config(resp) ==
    IF resp.kind = "ok" THEN resp.val ELSE EmptyDict

\* lines 174-178
merge_primary_region(cfg, ssm) ==
    PyOr(Get(cfg, "primary_region", None), Get(ssm, "primary_region", DefaultRegion))

\* variant that falls back to the caller's own account; C11 must tell it from
\* merge_audit_account_id
merge_audit_or_caller(cfg, ssm) ==
    PyOr(Get(cfg, "audit_account_id", None), Get(ssm, "audit_account_id", ManagementId))

merge_audit_account_id(cfg, ssm) ==
    PyOr(Get(cfg, "audit_account_id", None), Get(ssm, "audit_account_id", ""))

merge_custom_tags(cfg, ssm) ==
    Get(ssm, "tags", Get(cfg, "tags", {}))

Merge(cfg, ssm) ==
    [primary_region         |-> merge_primary_region(cfg, ssm),
     audit_account_id       |-> merge_audit_account_id(cfg, ssm),
     log_archive_account_id |-> Get(ssm, "log_archive_account_id", ""),
     organization_id        |-> Get(ssm, "organization_id", ""),
     custom_tags            |-> merge_custom_tags(cfg, ssm)]

NoMerge == [primary_region |-> None, audit_account_id |-> None,
            log_archive_account_id |-> None, organization_id |-> None,
            custom_tags |-> {}]

\* describe_organization_configuration responses (also used by the Verifier):
\* optional keys; S3Logs / Kubernetes / MalwareProtection stand for the
\* AutoEnable flag at the end of the nested DataSources path, absent when any
\* level of the path is missing.
OrgConfigValues ==
    { m @@ s @@ k @@ w :
        m \in {EmptyDict} \cup {"AutoEnableOrganizationMembers" :> v : v \in {"ALL", "NEW", "NONE"}},
        s \in {EmptyDict, "S3Logs" :> TRUE, "S3Logs" :> FALSE},
        k \in {EmptyDict, "Kubernetes" :> TRUE},
        w \in {EmptyDict, "MalwareProtection" :> TRUE} }

DefaultInfo ==
    [guardduty_org_exists |-> FALSE, guardduty_delegated_admin |-> "",
     guardduty_auto_enable |-> FALSE, guardduty_s3_protection |-> FALSE,
     guardduty_eks_protection |-> FALSE, guardduty_malware_protection |-> FALSE]

\* What discover_guardduty_org_config is answered: the listing of delegated
\* administrators, and (used only when the admin is the audit account) the
\* role assumption, the detector listing and the organization configuration.
DiscoverApis ==
    [admins   : {Ok(<<>>), Ok(<<CfgAuditId>>), Ok(<<SsmAuditId>>), Ok(<<OtherId>>)} \cup Failures
                \cup {ClientError("Throttling")},
     assume   : {Ok("creds"), ClientError("AccessDenied"), OtherException},
     detectors: {Ok(<<>>), Ok(<<"d-audit">>), ClientError("AccessDeniedException"),
                 OtherException},
     orgcfg   : {Ok(v) : v \in {EmptyDict,
                                "AutoEnableOrganizationMembers" :> "NONE",
                                ("AutoEnableOrganizationMembers" :> "ALL") @@ ("S3Logs" :> TRUE)
                                  @@ ("Kubernetes" :> TRUE) @@ ("MalwareProtection" :> TRUE),
                                ("AutoEnable" :> TRUE) @@ ("S3Logs" :> TRUE)}}
                \cup {ClientError("BadRequestException"), OtherException}]

\* lines 59-112: the block run when the delegated admin is the audit account
org_config_info(base, api) ==
    IF api.assume.kind # "ok" \/ api.detectors.kind # "ok" THEN base
    ELSE IF api.detectors.val = <<>> THEN base
    ELSE IF api.orgcfg.kind # "ok" THEN base
    ELSE LET oc == api.orgcfg.val IN
         [base EXCEPT
            !.guardduty_auto_enable =
                Get(oc, "AutoEnable", FALSE)
                \/ Get(oc, "AutoEnableOrganizationMembers", "") = "ALL",
            !.guardduty_s3_protection = Get(oc, "S3Logs", FALSE),
            !.guardduty_eks_protection = Get(oc, "Kubernetes", FALSE),
            !.guardduty_malware_protection = Get(oc, "MalwareProtection", FALSE)]

\* discover_guardduty_org_config (lines 32-122), for the ClientError and ok
\* answers of the listing
discover_guardduty_org_config(audit_account_id, api) ==
    IF api.admins.kind # "ok" THEN DefaultInfo
    ELSE IF api.admins.val = <<>> THEN DefaultInfo
    ELSE LET base == [DefaultInfo EXCEPT !.guardduty_delegated_admin = api.admins.val[1],
                                         !.guardduty_org_exists = TRUE]
         IN  IF base.guardduty_delegated_admin = audit_account_id
             THEN org_config_info(base, api)
             ELSE base

\* the operations discover_guardduty_org_config issues
discover_calls(audit_account_id, api) ==
    {"list_delegated_administrators"}
    \cup (IF api.admins.kind = "ok" /\ api.admins.val # <<>>
             /\ api.admins.val[1] = audit_account_id
          THEN {"assume_role"}
               \cup (IF api.assume.kind = "ok" THEN {"list_detectors"} ELSE {})
               \cup (IF api.assume.kind = "ok" /\ api.detectors.kind = "ok"
                        /\ api.detectors.val # <<>>
                     THEN {"describe_organization_configuration"} ELSE {})
          ELSE {})

\* whether a call of discover_guardduty_org_config raises something that is
\* no ClientError: neither handler (lines 108, 113, 117) catches it
discover_raises(audit_account_id, api) ==
    \/ api.admins.kind = "exception"
    \/ /\ api.admins.kind = "ok" /\ api.admins.val # <<>>
       /\ api.admins.val[1] = audit_account_id
       /\ \/ api.assume.kind = "exception"
          \/ /\ api.assume.kind = "ok"
             /\ \/ api.detectors.kind = "exception"
                \/ /\ api.detectors.kind = "ok" /\ api.detectors.val # <<>>
                   /\ api.orgcfg.kind = "exception"

\* variant of the gate that accepts any registered delegated admin; C23
\* must tell it from admin_gate
admin_gate_registered_only(info, audit_account_id) == info.guardduty_org_exists

\* main, lines 203-214: a delegated admin is registered and it is the audit
\* account
admin_gate(info, audit_account_id) ==
    /\ info.guardduty_org_exists
    /\ info.guardduty_delegated_admin = audit_account_id

InitDiscoveryIdle ==
    /\ d_pc = "idle"
    /\ config = EmptyDict
    /\ ssm_config = EmptyDict
    /\ merged = NoMerge
    /\ guardduty_info = DefaultInfo
    /\ d_calls = {}
    /\ d_files = {}
    /\ d_rc = -1

InitDiscovery ==
    /\ d_pc = "load_config"
    /\ config \in ConfigChoices
    /\ ssm_config = EmptyDict
    /\ merged = NoMerge
    /\ guardduty_info = DefaultInfo
    /\ d_calls = {}
    /\ d_files = {}
    /\ d_rc = -1

\* main, lines 156-162
D_LoadConfig ==
    /\ d_pc = "load_config"
    /\ IF ~Truthy(Get(config, "resource_prefix", ""))
       THEN d_pc' = "done" /\ d_rc' = 1
       ELSE d_pc' = "read_ssm" /\ d_rc' = d_rc
    /\ UNCHANGED <<config, ssm_config, merged, guardduty_info, d_calls, d_files>>
    /\ UNCHANGED <<tfvars, syncVars, verVars>>

\* main, lines 164-187: caller identity, SSM read, merge
D_Merge ==
    /\ d_pc = "read_ssm"
    /\ \E ident \in {Ok(ManagementId)} \cup Failures,
          resp \in SsmResponses \cup {OtherException} :
         IF ident.kind # "ok"
         THEN \* nothing catches what sts.get_caller_identity raises (line 167)
              /\ resp = OtherException
              /\ d_pc' = "crashed" /\ d_rc' = 1
              /\ d_calls' = d_calls \cup {"get_caller_identity"}
              /\ UNCHANGED <<ssm_config, merged>>
         ELSE IF resp.kind = "exception"
         THEN /\ d_pc' = "crashed" /\ d_rc' = 1
              /\ d_calls' = d_calls \cup {"get_caller_identity", "get_parameter"}
              /\ UNCHANGED <<ssm_config, merged>>
         ELSE /\ ssm_config' = read_ssm_org_config(resp)
              /\ merged' = Merge(config, read_ssm_org_config(resp))
              /\ d_calls' = d_calls \cup {"get_caller_identity", "get_parameter"}
              /\ d_pc' = "check_audit" /\ d_rc' = d_rc
    /\ UNCHANGED <<config, guardduty_info, d_files>>
    /\ UNCHANGED <<tfvars, syncVars, verVars>>

\* main, lines 192-198
D_CheckAudit ==
    /\ d_pc = "check_audit"
    /\ IF ~Truthy(merged.audit_account_id)
       THEN d_pc' = "done" /\ d_rc' = 1
       ELSE d_pc' = "discover" /\ d_rc' = d_rc
    /\ UNCHANGED <<config, ssm_config, merged, guardduty_info, d_calls, d_files>>
    /\ UNCHANGED <<tfvars, syncVars, verVars>>

\* main, lines 200-214
D_Discover ==
    /\ d_pc = "discover"
    /\ \E api \in DiscoverApis :
         /\ d_calls' = d_calls \cup discover_calls(merged.audit_account_id, api)
         /\ IF discover_raises(merged.audit_account_id, api)
            THEN /\ d_pc' = "crashed" /\ d_rc' = 1
                 /\ UNCHANGED guardduty_info
            ELSE LET info == discover_guardduty_org_config(merged.audit_account_id, api) IN
                 /\ guardduty_info' = info
                 /\ IF ~admin_gate(info, merged.audit_account_id)
                    THEN d_pc' = "done" /\ d_rc' = 1
                    ELSE d_pc' = "collect" /\ d_rc' = d_rc
    /\ UNCHANGED <<config, ssm_config, merged, d_files>>
    /\ UNCHANGED <<tfvars, syncVars, verVars>>

\* a variables file whose writing was cut short: it exists and is no JSON
TruncatedTfvars == [exists |-> TRUE, content |-> ("<invalid JSON>" :> TRUE)]

\* json.load of an existing variables file: the dict, or JSONDecodeError
JsonError == [kind |-> "exception", val |-> "JSONDecodeError"]
json_load(tv) == IF tv = TruncatedTfvars THEN JsonError ELSE Ok(tv.content)

\* json.dump(tfvars, f) (line 296): whether every value can be encoded
json_serializable(tags) == tags \cap DateTags = {}

\* the calls of lines 218-264, in order, for a log-archive account ID that is
\* set: head_bucket is reached only with a session, describe_account unless
\* an earlier call raised something that is no ClientError
collect_calls(la_assume, bucket) ==
    {"assume_role_log_archive"}
    \cup (IF la_assume.kind = "ok" THEN {"head_bucket"} ELSE {})
    \cup (IF la_assume.kind = "exception"
             \/ (la_assume.kind = "ok" /\ bucket.kind = "exception")
          THEN {} ELSE {"describe_account"})

collect_raises(la_assume, bucket, email) ==
    \/ la_assume.kind = "exception"
    \/ la_assume.kind = "ok" /\ bucket.kind = "exception"
    \/ email.kind = "exception"

\* main, lines 218-304: access-logs bucket, log-archive email, hand-off files
D_Write ==
    /\ d_pc = "collect"
    /\ \E la_assume \in {Ok("creds"), ClientError("AccessDenied"), OtherException},
          bucket \in {Ok("exists"), ClientError("404"), ClientError("403"), OtherException},
          email \in {Ok("log-archive@example.com"), ClientError("AccessDeniedException"),
                     OtherException} :
         LET la == merged.log_archive_account_id IN
         /\ Truthy(la) \/ (la_assume = Ok("creds") /\ bucket = Ok("exists")
                           /\ email.kind = "ok")
         /\ (la_assume.kind # "ok") => (bucket = Ok("exists"))
         /\ (la_assume.kind = "exception"
             \/ (la_assume.kind = "ok" /\ bucket.kind = "exception")) => (email.kind = "ok")
         /\ d_calls' = d_calls \cup (IF Truthy(la) THEN collect_calls(la_assume, bucket)
                                     ELSE {})
         /\ IF Truthy(la) /\ collect_raises(la_assume, bucket, email)
            THEN \* a traceback before anything is written
                 /\ d_pc' = "crashed" /\ d_rc' = 1
                 /\ UNCHANGED <<d_files, tfvars>>
            ELSE IF ~json_serializable(merged.custom_tags)
            THEN \* discovery.json is written (default=str); json.dump of the
                 \* variables raises TypeError with the file open and half written
                 /\ d_pc' = "crashed" /\ d_rc' = 1
                 /\ d_files' = {"discovery.json", "bootstrap.auto.tfvars.json"}
                 /\ tfvars' = TruncatedTfvars
            ELSE /\ tfvars' =
                      [exists |-> TRUE,
                       content |->
                         [primary_region |-> merged.primary_region,
                          resource_prefix |-> Get(config, "resource_prefix", ""),
                          deployment_name |-> Get(config, "deployment_name",
                                                  "portfolio-aws-org-guardduty"),
                          management_account_id |-> ManagementId,
                          audit_account_id |-> merged.audit_account_id,
                          log_archive_account_id |-> la,
                          log_archive_account_email |->
                              IF Truthy(la) /\ email.kind = "ok" THEN email.val ELSE "",
                          access_logs_bucket_exists |->
                              Truthy(la) /\ la_assume.kind = "ok" /\ bucket.kind = "ok",
                          custom_tags |-> merged.custom_tags]]
                 /\ d_files' = {"discovery.json", "bootstrap.auto.tfvars.json"}
                 /\ d_pc' = "done"
                 /\ d_rc' = 0
    /\ UNCHANGED <<config, ssm_config, merged, guardduty_info>>
    /\ UNCHANGED <<syncVars, verVars>>

NextDiscovery == D_LoadConfig \/ D_Merge \/ D_CheckAudit \/ D_Discover \/ D_Write

(***************************************************************************)
(* state_sync.py                                                           *)
(***************************************************************************)
IMPORT_RETRIES == 2

\* Resource addresses (lines 168, 215, 274, 333)
LogGroupAddr == "aws_cloudwatch_log_group.deployments"

\* address of the organization configuration of a region, the resource main
\* leaves out on purpose (lines 410-415); C12 must tell it from AdminAddr
OrgConfigAddr(region) ==
    "module.guardduty_org_" \o region_to_module_suffix(region)
        \o "[0].aws_guardduty_organization_configuration.main"

AdminAddr(region) ==
    "module.guardduty_org_" \o region_to_module_suffix(region)
        \o "[0].aws_guardduty_organization_admin_account.main"

DetAddr(account_prefix, region) ==
    "module.guardduty_" \o account_prefix \o "_" \o region_to_module_suffix(region)
        \o "[0].aws_guardduty_detector.main"

PubAddr(region) ==
    "module.guardduty_audit_" \o region_to_module_suffix(region)
        \o "[0].aws_guardduty_publishing_destination.findings[0]"

Regions == Range(ALL_REGIONS)

AdminAddrs == {AdminAddr(r) : r \in Regions}
DetAddrs   == {DetAddr(p, r) : p \in {"mgmt", "audit"}, r \in Regions}
PubAddrs   == {PubAddr(r) : r \in Regions}
GdAddrs    == AdminAddrs \cup DetAddrs \cup PubAddrs
AllAddrs   == {LogGroupAddr} \cup GdAddrs

\* The hand-off file as state_sync.py may find it
FullTfvars ==
    [exists |-> TRUE,
     content |-> [resource_prefix |-> "acme", deployment_name |-> "gd",
                  management_account_id |-> ManagementId,
                  audit_account_id |-> CfgAuditId,
                  log_archive_account_id |-> LogArchiveId]]

NoAuditTfvars ==
    [exists |-> TRUE,
     content |-> [resource_prefix |-> "acme", deployment_name |-> "gd",
                  management_account_id |-> ManagementId]]

NoPrefixTfvars ==
    [exists |-> TRUE,
     content |-> [management_account_id |-> ManagementId,
                  audit_account_id |-> CfgAuditId]]

SyncTfvarsChoices == {NoFile, FullTfvars, NoAuditTfvars, NoPrefixTfvars, TruncatedTfvars}

\* get_account_ids_from_tfvars (lines 92-106): a file that does not parse is
\* passed over (except Exception: pass)
get_account_ids_from_tfvars(tv) ==
    IF tv.exists /\ json_load(tv).kind = "ok"
    THEN [management |-> Get(json_load(tv).val, "management_account_id", ""),
          audit      |-> Get(json_load(tv).val, "audit_account_id", "")]
    ELSE [management |-> "", audit |-> ""]

(***************************************************************************)
(* The terraform CLI (external).  A process either exits with a return     *)
(* code and its output lines, or runs into the timeout, or cannot be       *)
(* started; `wrote` tells whether it changed the state file before it      *)
(* ended.                                                                  *)
(***************************************************************************)
AlreadyManagedLine == "Error: Resource already managed by Terraform"

Exit(rc, out) == [kind |-> "exit", rc |-> rc, out |-> out, wrote |-> FALSE]
TimedOut      == [kind |-> "timeout", rc |-> -1, out |-> <<>>, wrote |-> FALSE]
NotStarted    == [kind |-> "exception", rc |-> -1, out |-> <<>>, wrote |-> FALSE]

\* terraform import of an address, given whether the state holds it:
\* "good" is terraform working; "error" and "timeout" are transient failures;
\* "late" is a run that is killed by the timeout after it has written the
\* state; "invalid" is a failure that no repetition cures
TfImport(inState, o) ==
    CASE o = "good"    -> IF inState THEN Exit(1, <<AlreadyManagedLine>>)
                          ELSE [Exit(0, <<"Import successful!">>) EXCEPT !.wrote = TRUE]
      [] o = "error"   -> Exit(1, <<"Error: Failed to configure provider">>)
      [] o = "timeout" -> TimedOut
      [] o = "late"    -> [TimedOut EXCEPT !.wrote = ~inState]
      [] o = "invalid" -> Exit(1, <<"Error: Cannot import non-existent remote object">>)

\* terraform state list
TfStateList(state, o) ==
    IF o = "good" THEN Exit(0, SeqOf(state))
    ELSE Exit(1, <<"Error: Failed to load state">>)

\* terraform plan -refresh-only
TfPlan(o) ==
    IF o = "good" THEN Exit(0, <<"No changes.">>)
    ELSE Exit(1, <<"Error: configuring Terraform AWS Provider">>)

\* what terraform answers the successive import runs for one address: it
\* fails transiently some number of times, then works or fails for good
ImportOracles ==
    {os \in [1..(IMPORT_RETRIES + 1) -> {"good", "error", "timeout", "late", "invalid"}] :
        \A k \in DOMAIN os :
            os[k] \in {"good", "invalid"} => \A j \in DOMAIN os : j > k => os[j] = os[k]}
AllGood == [k \in 1..(IMPORT_RETRIES + 1) |-> "good"]

\* run_terraform_cmd (lines 43-59): (success, output)
run_terraform_cmd(proc) ==
    CASE proc.kind = "exit"      -> [success |-> proc.rc = 0, output |-> proc.out]
      [] proc.kind = "timeout"   -> [success |-> FALSE, output |-> <<"Command timed out">>]
      [] proc.kind = "exception" -> [success |-> FALSE, output |-> <<"[Errno 2] No such file">>]

\* variant that does not know the already-managed answer; C20 must tell it
\* from already_managed_in
never_already_managed(output) == FALSE

\* "Resource already managed" in output
already_managed_in(output) == \E i \in DOMAIN output : output[i] = AlreadyManagedLine

\* variant of main that warms up whatever the snapshot holds; C19 must tell
\* it from needs_warm_up
always_warm_up(resources) == TRUE

\* main, line 403: the warm-up runs for an empty snapshot only
needs_warm_up(resources) == Cardinality(resources) = 0

\* variant that reads the output of a failed listing as addresses; C24 must
\* tell it from get_state_resources
state_resources_unchecked(proc) == Range(run_terraform_cmd(proc).output)

\* get_state_resources (lines 62-67)
get_state_resources(proc) ==
    LET r == run_terraform_cmd(proc) IN
    IF r.success THEN Range(r.output) ELSE {}

\* resource_exists_in_state (lines 70-72)
resource_exists_in_state(address, resources) == address \in resources

\* variant of the loop that gives up after the first failed attempt; C3 must
\* tell it from import_from
import_single_attempt(attempt, procs) ==
    LET r == run_terraform_cmd(procs[attempt]) IN
    [ok |-> r.success \/ already_managed_in(r.output), trace |-> <<"import">>]

RECURSIVE import_from(_, _)
\* the loop of import_resource from attempt number `attempt` on: the result
\* and the trace of what it did ("import" = one terraform import, "sleep")
import_from(attempt, procs) ==
    IF attempt > IMPORT_RETRIES THEN [ok |-> FALSE, trace |-> <<>>]
    ELSE LET r == run_terraform_cmd(procs[attempt]) IN
         IF r.success THEN [ok |-> TRUE, trace |-> <<"import">>]
         ELSE IF already_managed_in(r.output) THEN [ok |-> TRUE, trace |-> <<"import">>]
         ELSE LET rest == import_from(attempt + 1, procs)
                  nap  == IF attempt < IMPORT_RETRIES THEN <<"sleep">> ELSE <<>>
              IN  [ok |-> rest.ok, trace |-> <<"import">> \o nap \o rest.trace]

\* import_resource (lines 75-89); procs[k] is what the k-th terraform run does
import_resource(procs) == import_from(1, procs)

Attempts(trace) == Cardinality({i \in DOMAIN trace : trace[i] = "import"})

\* whether terraform stored the address during the attempts made
Stored(procs, trace) == \E k \in 1..Attempts(trace) : procs[k].wrote

\* whether the attempts made met a failure of terraform
ImportFaulty(os, trace) == \E k \in 1..Attempts(trace) : os[k] # "good"

Call(op, addr, arg) == [op |-> op, addr |-> addr, arg |-> arg]

ImportCalls(addr, id, trace) ==
    [i \in DOMAIN trace |->
        IF trace[i] = "import" THEN Call("terraform_import", addr, id)
        ELSE Call("sleep", addr, "")]

Target(res, cs, st) == [result |-> res, calls |-> cs, stored |-> st]

\* lines 229-235 / 296-302 / 359-365: import and count
import_target(addr, id, procs, before) ==
    LET r == import_resource(procs) IN
    Target(IF r.ok THEN "imported" ELSE "failed",
           before \o ImportCalls(addr, id, r.trace),
           Stored(procs, r.trace))

\* get_cross_account_session (lines 109-126): a session, or None
get_cross_account_session(resp) == IF resp.kind = "ok" THEN "session" ELSE None

\* body of the loop of sync_guardduty_org_admin (lines 213-238)
sync_admin_target(addr, audit_account_id, resources, resp, procs) ==
    IF resource_exists_in_state(addr, resources) THEN Target("skipped", <<>>, FALSE)
    ELSE LET c == <<Call("list_organization_admin_accounts", addr, "")>> IN
         IF resp.kind = "exception" THEN Target("crashed", c, FALSE)
         ELSE IF resp.kind = "client_error" THEN Target("failed", c, FALSE)
         ELSE IF \E i \in DOMAIN resp.val : resp.val[i] = audit_account_id
              THEN import_target(addr, audit_account_id, procs, c)
              ELSE Target("none", c, FALSE)

\* accounts_to_sync (lines 266-269)
accounts_to_sync(audit_account_id) ==
    << [prefix |-> "mgmt", assume |-> None],
       [prefix |-> "audit", assume |-> audit_account_id] >>

\* body of the loops of sync_guardduty_detectors (lines 273-305)
sync_detector_target(addr, assume_account_id, resources, sess, resp, procs) ==
    IF resource_exists_in_state(addr, resources) THEN Target("skipped", <<>>, FALSE)
    ELSE LET a == IF Truthy(assume_account_id)
                  THEN <<Call("assume_role", addr, assume_account_id)>> ELSE <<>>
             c == a \o <<Call("list_detectors", addr, "")>>
         IN
         IF Truthy(assume_account_id) /\ sess.kind = "exception" THEN Target("crashed", a, FALSE)
         ELSE IF Truthy(assume_account_id) /\ get_cross_account_session(sess) = None
              THEN Target("failed", a, FALSE)
         ELSE IF resp.kind = "exception" THEN Target("crashed", c, FALSE)
         ELSE IF resp.kind = "client_error" THEN Target("failed", c, FALSE)
         ELSE IF resp.val # <<>> THEN import_target(addr, resp.val[1], procs, c)
         ELSE Target("none", c, FALSE)

\* lines 355-366: the first S3 destination, or 0
first_s3(dests) ==
    IF \E i \in DOMAIN dests : dests[i].DestinationType = "S3"
    THEN CHOOSE i \in DOMAIN dests :
            /\ dests[i].DestinationType = "S3"
            /\ \A j \in 1..(i - 1) : dests[j].DestinationType # "S3"
    ELSE 0

\* body of the loop of sync_guardduty_publishing_destinations (lines 332-369)
sync_pubdest_target(addr, audit_account_id, resources, sess, dets, dsts, procs) ==
    IF resource_exists_in_state(addr, resources) THEN Target("skipped", <<>>, FALSE)
    ELSE LET a == <<Call("assume_role", addr, audit_account_id)>>
             c == a \o <<Call("list_detectors", addr, "")>>
         IN
         IF sess.kind = "exception" THEN Target("crashed", a, FALSE)
         ELSE IF get_cross_account_session(sess) = None THEN Target("failed", a, FALSE)
         ELSE IF dets.kind = "exception" THEN Target("crashed", c, FALSE)
         ELSE IF dets.kind = "client_error" THEN Target("failed", c, FALSE)
         ELSE IF dets.val = <<>> THEN Target("none", c, FALSE)
         ELSE LET d == c \o <<Call("list_publishing_destinations", addr, dets.val[1])>> IN
              IF dsts.kind = "exception" THEN Target("crashed", d, FALSE)
              ELSE IF dsts.kind = "client_error" THEN Target("failed", d, FALSE)
              ELSE IF first_s3(dsts.val) # 0
                   THEN import_target(addr,
                            dets.val[1] \o ":" \o dsts.val[first_s3(dsts.val)].DestinationId,
                            procs, d)
                   ELSE Target("none", d, FALSE)

\* body of sync_cloudwatch_log_group (lines 168-194); json.load (lines
\* 179-180) is outside any try, so a file that does not parse ends the run
sync_log_group_target(tv, resources, procs) ==
    IF resource_exists_in_state(LogGroupAddr, resources) THEN Target("skipped", <<>>, FALSE)
    ELSE IF ~tv.exists THEN Target("none", <<>>, FALSE)
    ELSE IF json_load(tv).kind # "ok" THEN Target("crashed", <<>>, FALSE)
    ELSE IF ~Truthy(Get(tv.content, "resource_prefix", ""))
            \/ ~Truthy(Get(tv.content, "deployment_name", ""))
         THEN Target("none", <<>>, FALSE)
    ELSE import_target(LogGroupAddr,
            "/" \o tv.content.resource_prefix \o "/deployments/" \o tv.content.deployment_name,
            procs, <<>>)

(***************************************************************************)
(* AWS as the Reconciler's probes see it.  world[a] says whether the       *)
(* resource behind address a exists; it is decided when a probe first      *)
(* observes it and never changes afterwards.                               *)
(***************************************************************************)
\* an answer that departs from the all-well case is drawn only while another
\* departure is allowed (Apply refuses it otherwise)
Affordable(S) == {r \in S : r.kind = "ok" \/ deviations < MaxDeviations}

Resolve(w) ==
    IF w # "unknown" THEN {w}
    ELSE IF deviations < MaxDeviations THEN {"present", "absent"}
    ELSE {"present"}

DetectorId(account_prefix, region) == "det-" \o account_prefix \o "-" \o region

AdminResponses(w, audit_account_id) ==
    IF w = "present" THEN {Ok(<<audit_account_id>>)} ELSE {Ok(<<>>), Ok(<<OtherId>>)}

DetectorResponse(w, account_prefix, region) ==
    IF w = "present" THEN Ok(<<DetectorId(account_prefix, region)>>) ELSE Ok(<<>>)

DestinationResponse(w, region) ==
    IF w = "present"
    THEN Ok(<<[DestinationType |-> "S3", DestinationId |-> "dest-" \o region]>>)
    ELSE Ok(<<>>)

SessionResponses == {Ok("creds")} \cup Failures

\* the k-th run finds the address in the state if the state held it before
\* or an earlier run of the target wrote it
ImportProcs(addr, os) ==
    [k \in DOMAIN os |->
        TfImport(addr \in tfstate \/ \E j \in 1..(k - 1) : os[j] = "late", os[k])]

ImportReached(t) == \E i \in DOMAIN t.calls : t.calls[i].op = "terraform_import"

\* the terraform answers worth telling apart: all of them when the target gets
\* as far as an import, one when it does not
OraclesFor(t0) ==
    IF ImportReached(t0) /\ deviations < MaxDeviations THEN ImportOracles ELSE {AllGood}

ImportCost(t, os) ==
    IF \E k \in 1..Cardinality({i \in DOMAIN t.calls : t.calls[i].op = "terraform_import"}) :
          os[k] # "good"
    THEN 1 ELSE 0

NewlyAbsent(addr, w) == IF world[addr] = "unknown" /\ w = "absent" THEN 1 ELSE 0

NoOutcome == [addr |-> "", result |-> "", answers |-> <<>>]
NoOut == [category |-> "", imported |-> 0, skipped |-> 0, failed |-> 0, note |-> ""]

Summary(cat) ==
    [category |-> cat, imported |-> imported_count, skipped |-> skipped_count,
     failed |-> failed_count, note |-> ""]

counters == <<imported_count, skipped_count, failed_count, unrecorded_count>>

\* the counter a target's result bumps
Bump(res) ==
    /\ imported_count' = imported_count + (IF res = "imported" THEN 1 ELSE 0)
    /\ skipped_count' = skipped_count + (IF res = "skipped" THEN 1 ELSE 0)
    /\ failed_count' = failed_count + (IF res = "failed" THEN 1 ELSE 0)
    /\ unrecorded_count' = unrecorded_count + (IF res = "none" THEN 1 ELSE 0)

ResetCounters ==
    /\ imported_count' = 0
    /\ skipped_count' = 0
    /\ failed_count' = 0
    /\ unrecorded_count' = 0

\* what one target's processing leaves behind
Apply(addr, t, cost, w2, os) ==
    /\ deviations + cost <= MaxDeviations
    /\ deviations' = deviations + cost
    /\ calls' = t.calls
    /\ outcome' = [addr |-> addr, result |-> t.result, answers |-> os]
    /\ tfstate' = IF t.stored THEN tfstate \cup {addr} ELSE tfstate
    /\ world' = w2
    /\ tracked_seen' = tracked_seen + (IF t.result = "skipped" THEN 1 ELSE 0)
    /\ first_run' = IF s_run = "first" /\ t.result \in {"failed", "crashed"}
                    THEN t.result ELSE first_run
    /\ s_rc' = IF t.result = "crashed" THEN 1 ELSE s_rc
    /\ s_out' = NoOut
    /\ UNCHANGED <<s_run, state_resources, list_ok, tfvars>>

InitSyncIdle ==
    /\ s_pc = "idle" /\ s_run = "first" /\ s_i = 1 /\ s_a = 1
    /\ tfstate = {}
    /\ world = [a \in GdAddrs |-> "unknown"]
    /\ state_resources = {}
    /\ imported_count = 0 /\ skipped_count = 0 /\ failed_count = 0
    /\ unrecorded_count = 0 /\ tracked_seen = 0
    /\ calls = <<>> /\ outcome = NoOutcome /\ s_out = NoOut
    /\ deviations = 0 /\ first_run = "clean" /\ list_ok = TRUE
    /\ s_rc = -1

InitSync ==
    /\ s_pc = "main" /\ s_run = "first" /\ s_i = 1 /\ s_a = 1
    /\ tfvars \in SyncTfvarsChoices
    /\ tfstate \in {{}, AllAddrs}
    /\ world = [a \in GdAddrs |-> "unknown"]
    /\ state_resources = {}
    /\ imported_count = 0 /\ skipped_count = 0 /\ failed_count = 0
    /\ unrecorded_count = 0 /\ tracked_seen = 0
    /\ calls = <<>> /\ outcome = NoOutcome /\ s_out = NoOut
    /\ deviations = 0 /\ first_run = "clean" /\ list_ok = TRUE
    /\ s_rc = -1

\* main, lines 377-404: config.yaml, caller identity, state snapshot, warm-up.
\* config.yaml is opened and parsed with no test and no handler (lines
\* 384-390); what it holds is never read.
S_Start ==
    /\ s_pc = "main"
    /\ \E cfg \in {"loaded", "unreadable"},
          ident \in {Ok(ManagementId)} \cup Failures, lo \in {"good", "error"},
          wo \in {"good", "error"} :
         IF cfg = "unreadable"
         THEN \* FileNotFoundError or a YAML error, before any call
              /\ ident = Ok(ManagementId) /\ lo = "good" /\ wo = "good"
              /\ deviations + 1 <= MaxDeviations
              /\ deviations' = deviations + 1
              /\ s_pc' = "crashed" /\ s_rc' = 1
              /\ calls' = <<>>
              /\ first_run' = IF s_run = "first" THEN "crashed" ELSE first_run
              /\ UNCHANGED <<state_resources, list_ok>>
         ELSE IF ident.kind # "ok"
         THEN /\ lo = "good" /\ wo = "good"
              /\ deviations + 1 <= MaxDeviations
              /\ deviations' = deviations + 1
              /\ s_pc' = "crashed" /\ s_rc' = 1
              /\ calls' = <<Call("get_caller_identity", "", "")>>
              /\ first_run' = IF s_run = "first" THEN "crashed" ELSE first_run
              /\ UNCHANGED <<state_resources, list_ok>>
         ELSE LET snap == get_state_resources(TfStateList(tfstate, lo))
                  warm == needs_warm_up(snap)
                  cost == (IF lo = "good" THEN 0 ELSE 1)
                          + (IF warm /\ wo # "good" THEN 1 ELSE 0)
              IN
              /\ warm \/ wo = "good"
              /\ deviations + cost <= MaxDeviations
              /\ deviations' = deviations + cost
              /\ state_resources' = snap
              /\ list_ok' = (lo = "good")
              /\ calls' = <<Call("get_caller_identity", "", ""),
                            Call("terraform_state_list", "", "")>>
                          \o (IF warm
                              THEN <<Call("terraform_plan_refresh_only", "",
                                          IF run_terraform_cmd(TfPlan(wo)).success
                                          THEN "successful" ELSE "warnings")>>
                              ELSE <<>>)
              /\ s_pc' = "log_group" /\ s_rc' = s_rc
              /\ first_run' = first_run
    /\ tracked_seen' = 0
    /\ outcome' = NoOutcome /\ s_out' = NoOut
    /\ UNCHANGED <<s_run, s_i, s_a, tfstate, world, counters, tfvars>>
    /\ UNCHANGED <<discVars, verVars>>

\* sync_cloudwatch_log_group (lines 159-194)
S_LogGroup ==
    /\ s_pc = "log_group"
    /\ \E os \in OraclesFor(sync_log_group_target(tfvars, state_resources,
                                                   ImportProcs(LogGroupAddr, AllGood))) :
         LET t == sync_log_group_target(tfvars, state_resources, ImportProcs(LogGroupAddr, os)) IN
         /\ Apply(LogGroupAddr, t, ImportCost(t, os), world, os)
         /\ s_pc' = IF t.result = "crashed" THEN "crashed" ELSE "admin_begin"
    /\ UNCHANGED <<s_i, s_a, counters>>
    /\ UNCHANGED <<discVars, verVars>>

\* variant of the entry without the test of the audit account ID; C13 must
\* tell it from Begin
BeginUnguarded(here, cat, loop, after) ==
    /\ s_pc = here
    /\ s_pc' = loop
    /\ s_out' = NoOut
    /\ ResetCounters
    /\ s_i' = 1 /\ s_a' = 1
    /\ calls' = <<>> /\ outcome' = NoOutcome
    /\ UNCHANGED <<s_run, tfstate, world, state_resources, tracked_seen, deviations,
                   first_run, list_ok, s_rc, tfvars>>
    /\ UNCHANGED <<discVars, verVars>>

\* entry of a sync_guardduty_* function (lines 201-210, 255-263, 321-329)
Begin(here, cat, loop, after) ==
    /\ s_pc = here
    /\ IF ~Truthy(get_account_ids_from_tfvars(tfvars).audit)
       THEN /\ s_pc' = after
            /\ s_out' = [NoOut EXCEPT !.category = cat,
                                      !.note = "No audit account ID found, skipping"]
            /\ UNCHANGED counters
       ELSE /\ s_pc' = loop
            /\ s_out' = NoOut
            /\ ResetCounters
    /\ s_i' = 1 /\ s_a' = 1
    /\ calls' = <<>> /\ outcome' = NoOutcome
    /\ UNCHANGED <<s_run, tfstate, world, state_resources, tracked_seen, deviations,
                   first_run, list_ok, s_rc, tfvars>>
    /\ UNCHANGED <<discVars, verVars>>

\* the summary line of a sync_guardduty_* function (lines 240-243, 307-310, 371-374)
PrintSummary(here, cat, after) ==
    /\ s_pc = here
    /\ s_out' = Summary(cat)
    /\ s_pc' = after
    /\ calls' = <<>> /\ outcome' = NoOutcome
    /\ UNCHANGED <<s_run, s_i, s_a, tfstate, world, state_resources, counters,
                   tracked_seen, deviations, first_run, list_ok, s_rc, tfvars>>
    /\ UNCHANGED <<discVars, verVars>>

S_AdminBegin == Begin("admin_begin", "admin", "admin", "det_begin")

\* sync_guardduty_org_admin, one region of the loop (lines 212-238)
S_Admin ==
    /\ s_pc = "admin" /\ s_i <= NumRegions
    /\ LET region == ALL_REGIONS[s_i]
           addr   == AdminAddr(region)
           audit  == get_account_ids_from_tfvars(tfvars).audit
       IN
       \E w \in Resolve(world[addr]) :
       \E resp \in Affordable(AdminResponses(w, audit) \cup Failures) :
       \E os \in OraclesFor(sync_admin_target(addr, audit, state_resources, resp,
                                              ImportProcs(addr, AllGood))) :
         LET t == sync_admin_target(addr, audit, state_resources, resp,
                                    ImportProcs(addr, os))
             cost == IF t.calls = <<>> THEN 0
                     ELSE IF resp.kind # "ok" THEN 1
                     ELSE NewlyAbsent(addr, w) + ImportCost(t, os)
             w2 == IF t.calls # <<>> /\ resp.kind = "ok"
                   THEN [world EXCEPT ![addr] = w] ELSE world
         IN
         /\ Apply(addr, t, cost, w2, os)
         /\ Bump(t.result)
         /\ IF t.result = "crashed"
            THEN s_pc' = "crashed" /\ s_i' = s_i
            ELSE s_pc' = (IF s_i = NumRegions THEN "admin_summary" ELSE "admin")
                 /\ s_i' = s_i + 1
    /\ UNCHANGED s_a
    /\ UNCHANGED <<discVars, verVars>>

S_AdminSummary == PrintSummary("admin_summary", "admin", "det_begin")

S_DetBegin == Begin("det_begin", "detectors", "det", "pub_begin")

\* sync_guardduty_detectors, one (account, region) of the loops (lines 271-305)
S_Detector ==
    /\ s_pc = "det" /\ s_a <= Len(accounts_to_sync("")) /\ s_i <= NumRegions
    /\ LET audit  == get_account_ids_from_tfvars(tfvars).audit
           acct   == accounts_to_sync(audit)[s_a]
           region == ALL_REGIONS[s_i]
           addr   == DetAddr(acct.prefix, region)
       IN
       \E w \in Resolve(world[addr]), sess \in Affordable(SessionResponses) :
       \E resp \in Affordable({DetectorResponse(w, acct.prefix, region)} \cup Failures) :
       \E os \in OraclesFor(sync_detector_target(addr, acct.assume, state_resources, sess,
                                                 resp, ImportProcs(addr, AllGood))) :
         LET t == sync_detector_target(addr, acct.assume, state_resources, sess, resp,
                                       ImportProcs(addr, os))
             listed == \E i \in DOMAIN t.calls : t.calls[i].op = "list_detectors"
             cost == IF t.calls = <<>> THEN 0
                     ELSE IF ~listed \/ resp.kind # "ok" THEN 1
                     ELSE NewlyAbsent(addr, w) + ImportCost(t, os)
             w2 == IF listed /\ resp.kind = "ok"
                   THEN [world EXCEPT ![addr] = w] ELSE world
         IN
         /\ Truthy(acct.assume) \/ sess = Ok("creds")
         /\ Apply(addr, t, cost, w2, os)
         /\ Bump(t.result)
         /\ IF t.result = "crashed"
            THEN s_pc' = "crashed" /\ s_i' = s_i /\ s_a' = s_a
            ELSE IF s_i < NumRegions
                 THEN s_pc' = "det" /\ s_i' = s_i + 1 /\ s_a' = s_a
                 ELSE IF s_a < Len(accounts_to_sync(audit))
                      THEN s_pc' = "det" /\ s_i' = 1 /\ s_a' = s_a + 1
                      ELSE s_pc' = "det_summary" /\ s_i' = s_i + 1 /\ s_a' = s_a
    /\ UNCHANGED <<discVars, verVars>>

S_DetSummary == PrintSummary("det_summary", "detectors", "pub_begin")

S_PubBegin == Begin("pub_begin", "publishing_destinations", "pub", "complete")

\* sync_guardduty_publishing_destinations, one region of the loop (lines 331-369)
S_PubDest ==
    /\ s_pc = "pub" /\ s_i <= NumRegions
    /\ LET audit  == get_account_ids_from_tfvars(tfvars).audit
           region == ALL_REGIONS[s_i]
           addr   == PubAddr(region)
           daddr  == DetAddr("audit", region)
       IN
       \E wd \in Resolve(world[daddr]), wp \in Resolve(world[addr]),
          sess \in Affordable(SessionResponses) :
       \E dets \in Affordable({DetectorResponse(wd, "audit", region)} \cup Failures),
          dsts \in Affordable({DestinationResponse(wp, region)} \cup Failures) :
       \E os \in OraclesFor(sync_pubdest_target(addr, audit, state_resources, sess, dets,
                                                dsts, ImportProcs(addr, AllGood))) :
         LET t == sync_pubdest_target(addr, audit, state_resources, sess, dets, dsts,
                                      ImportProcs(addr, os))
             listed  == \E i \in DOMAIN t.calls : t.calls[i].op = "list_detectors"
             listed2 == \E i \in DOMAIN t.calls :
                            t.calls[i].op = "list_publishing_destinations"
             cost == IF t.calls = <<>> THEN 0
                     ELSE IF ~listed \/ dets.kind # "ok" THEN 1
                     ELSE IF ~listed2 THEN NewlyAbsent(daddr, wd)
                     ELSE IF dsts.kind # "ok" THEN NewlyAbsent(daddr, wd) + 1
                     ELSE NewlyAbsent(daddr, wd) + NewlyAbsent(addr, wp) + ImportCost(t, os)
             w1 == IF listed /\ dets.kind = "ok"
                   THEN [world EXCEPT ![daddr] = wd] ELSE world
             w2 == IF listed2 /\ dsts.kind = "ok"
                   THEN [w1 EXCEPT ![addr] = wp] ELSE w1
         IN
         /\ Apply(addr, t, cost, w2, os)
         /\ Bump(t.result)
         /\ IF t.result = "crashed"
            THEN s_pc' = "crashed" /\ s_i' = s_i
            ELSE s_pc' = (IF s_i = NumRegions THEN "pub_summary" ELSE "pub")
                 /\ s_i' = s_i + 1
    /\ UNCHANGED s_a
    /\ UNCHANGED <<discVars, verVars>>

\* variant of main that returns to the detectors after the publishing
\* destinations; C18 must tell it from S_PubSummary
S_PubSummaryThenDetectors ==
    PrintSummary("pub_summary", "publishing_destinations", "det_begin")

S_PubSummary == PrintSummary("pub_summary", "publishing_destinations", "complete")

\* main, lines 423-427
S_Complete ==
    /\ s_pc = "complete"
    /\ s_pc' = "done"
    /\ s_rc' = 0
    /\ calls' = <<>> /\ outcome' = NoOutcome /\ s_out' = NoOut
    /\ UNCHANGED <<s_run, s_i, s_a, tfstate, world, state_resources, counters,
                   tracked_seen, deviations, first_run, list_ok, tfvars>>
    /\ UNCHANGED <<discVars, verVars>>

\* the Reconciler is invoked a second time: Terraform state, AWS and the
\* hand-off file are as the first run left them
S_Rerun ==
    /\ s_pc \in {"done", "crashed"} /\ s_run = "first"
    /\ s_run' = "second"
    /\ s_pc' = "main"
    /\ s_rc' = -1
    /\ s_i' = 1 /\ s_a' = 1
    /\ ResetCounters
    /\ tracked_seen' = 0
    /\ calls' = <<>> /\ outcome' = NoOutcome /\ s_out' = NoOut
    /\ UNCHANGED <<tfstate, world, state_resources, deviations, first_run, list_ok, tfvars>>
    /\ UNCHANGED <<discVars, verVars>>

NextSync ==
    \/ S_Start \/ S_LogGroup
    \/ S_AdminBegin \/ S_Admin \/ S_AdminSummary
    \/ S_DetBegin \/ S_Detector \/ S_DetSummary
    \/ S_PubBegin \/ S_PubDest \/ S_PubSummary
    \/ S_Complete \/ S_Rerun

(***************************************************************************)
(* verify-guardduty.py                                                     *)
(***************************************************************************)
NoLogArchiveTfvars ==
    [exists |-> TRUE,
     content |-> [resource_prefix |-> "acme", deployment_name |-> "gd",
                  management_account_id |-> ManagementId,
                  audit_account_id |-> CfgAuditId,
                  log_archive_account_id |-> ""]]

VerifyTfvarsChoices ==
    {NoFile, FullTfvars, NoLogArchiveTfvars, NoAuditTfvars, TruncatedTfvars}

\* load_tfvars (lines 53-64): {} without a file, else json.load, which is
\* outside any try
load_tfvars(tv) == IF tv.exists THEN json_load(tv) ELSE Ok(EmptyDict)

\* assume_role (lines 67-86): a session, or None
assume_role(resp) == IF resp.kind = "ok" THEN "session" ELSE None

ErrorText(resp) == "ClientError: " \o resp.val

\* check_service_access (lines 89-107)
check_service_access(resp) ==
    IF resp.kind = "ok"
    THEN [enabled |-> "guardduty.amazonaws.com" \in resp.val, error |-> None]
    ELSE [enabled |-> FALSE, error |-> ErrorText(resp)]

\* check_delegated_admin (lines 110-132)
check_delegated_admin(resp, expected_admin) ==
    IF resp.kind # "ok"
    THEN [correct |-> FALSE, actual_admin |-> None, error |-> ErrorText(resp)]
    ELSE IF resp.val # <<>>
         THEN [correct |-> resp.val[1] = expected_admin, actual_admin |-> resp.val[1],
               error |-> None]
         ELSE [correct |-> FALSE, actual_admin |-> None, error |-> None]

NoOrgConfig(err) ==
    [configured |-> FALSE, auto_enable |-> None, s3_auto_enable |-> FALSE,
     k8s_auto_enable |-> FALSE, malware_auto_enable |-> FALSE, error |-> err]

\* check_org_config (lines 135-197), once the client is chosen
check_org_config(dets, orgcfg) ==
    IF dets.kind # "ok" THEN NoOrgConfig(ErrorText(dets))
    ELSE IF dets.val = <<>> THEN NoOrgConfig("No detector found")
    ELSE IF orgcfg.kind # "ok" THEN NoOrgConfig(ErrorText(orgcfg))
    ELSE [configured |-> TRUE,
          auto_enable |-> Get(orgcfg.val, "AutoEnableOrganizationMembers", "NONE"),
          s3_auto_enable |-> Get(orgcfg.val, "S3Logs", FALSE),
          k8s_auto_enable |-> Get(orgcfg.val, "Kubernetes", FALSE),
          malware_auto_enable |-> Get(orgcfg.val, "MalwareProtection", FALSE),
          error |-> None]

\* lines 159-167 and 435 / 461 with 220-223 / 270-273: whose credentials the
\* client of a check carries
client_identity(account, assume_account_id, sess) ==
    IF Truthy(assume_account_id) /\ assume_role(sess) # None THEN account ELSE "management"

NoDetector(err) ==
    [enabled |-> FALSE, detector_id |-> None, s3_enabled |-> FALSE,
     k8s_enabled |-> FALSE, malware_enabled |-> FALSE, error |-> err]

\* check_detector (lines 200-251)
check_detector(dets, det) ==
    IF dets.kind # "ok" THEN NoDetector(ErrorText(dets))
    ELSE IF dets.val = <<>> THEN NoDetector(None)
    ELSE IF det.kind # "ok" THEN [NoDetector(ErrorText(det)) EXCEPT !.detector_id = dets.val[1]]
    ELSE [enabled |-> Get(det.val, "Status", None) = "ENABLED",
          detector_id |-> dets.val[1],
          s3_enabled |-> Get(det.val, "S3Logs", None) = "ENABLED",
          k8s_enabled |-> Get(det.val, "Kubernetes", None) = "ENABLED",
          malware_enabled |-> Get(det.val, "MalwareProtection", None) = "ENABLED",
          error |-> None]

NoDestination(err) ==
    [configured |-> FALSE, destination_arn |-> None, status |-> None, error |-> err]

\* check_publishing_destination (lines 254-299)
check_publishing_destination(dets, dsts, detail) ==
    IF dets.kind # "ok" THEN NoDestination(ErrorText(dets))
    ELSE IF dets.val = <<>> THEN NoDestination("No detector found")
    ELSE IF dsts.kind # "ok" THEN NoDestination(ErrorText(dsts))
    ELSE IF first_s3(dsts.val) = 0 THEN NoDestination(None)
    ELSE LET dest == dsts.val[first_s3(dsts.val)] IN
         [configured |-> TRUE,
          destination_arn |-> IF detail.kind = "ok"
                              THEN Get(detail.val, "DestinationArn", None) ELSE None,
          status |-> Get(dest, "Status", "UNKNOWN"),
          error |-> IF detail.kind = "ok" THEN None ELSE ErrorText(detail)]

\* lines 333-340: the branch taken for the service-access result
classify_service(res) ==
    IF Truthy(res.error) THEN "error"
    ELSE IF res.enabled THEN "ok"
    ELSE "missing"

\* lines 352-361
classify_admin(res) ==
    IF Truthy(res.error) THEN "error"
    ELSE IF res.correct THEN "ok"
    ELSE IF Truthy(res.actual_admin) THEN "wrong"
    ELSE "missing"

\* variant that treats an incomplete configuration as missing; C9 must tell it
\* from classify_org
classify_org_strict(res) ==
    IF Truthy(res.error) THEN "error"
    ELSE IF ~res.configured THEN "missing"
    ELSE IF res.auto_enable = "ALL" /\ res.s3_auto_enable /\ res.k8s_auto_enable
            /\ res.malware_auto_enable THEN "ok"
    ELSE "missing"

\* lines 383-396
classify_org(res) ==
    IF Truthy(res.error) THEN "error"
    ELSE IF ~res.configured THEN "missing"
    ELSE IF res.auto_enable = "ALL" /\ res.s3_auto_enable /\ res.k8s_auto_enable
            /\ res.malware_auto_enable THEN "ok"
    ELSE "partial"

\* lines 437-443
classify_detector(res) ==
    IF Truthy(res.error) THEN "error"
    ELSE IF res.enabled THEN "ok"
    ELSE "missing"

\* lines 463-472
classify_pub(res) ==
    IF Truthy(res.error) THEN "error"
    ELSE IF ~res.configured THEN "missing"
    ELSE IF res.status # "PUBLISHING" THEN "unhealthy"
    ELSE "ok"

\* lines 333-340: what a service-access result appends to the issue list
service_issues(bucket) == IF bucket = "ok" THEN 0 ELSE 1

\* variant that also reports the regions whose check failed; C22 must tell it
\* from region_issues
region_issues_with_errors(bucket) == IF bucket = "ok" THEN 0 ELSE 1

\* lines 352-361, 437-443, 463-472: issues appended per region
region_issues(bucket) == IF bucket \in {"wrong", "missing", "unhealthy"} THEN 1 ELSE 0

\* lines 395-406: warnings appended per region
region_warnings(bucket) == IF bucket = "partial" THEN 1 ELSE 0

\* variant that fails the run on warnings; C10 must tell it from final_verdict
verdict_failing_on_warnings(n_issues, n_warnings) ==
    IF n_issues = 0 /\ n_warnings = 0 THEN [verdict |-> "clean", rc |-> 0]
    ELSE IF n_issues = 0 THEN [verdict |-> "warnings", rc |-> 1]
    ELSE [verdict |-> "issues", rc |-> 1]

\* lines 509-517
final_verdict(n_issues, n_warnings) ==
    IF n_issues = 0 /\ n_warnings = 0 THEN [verdict |-> "clean", rc |-> 0]
    ELSE IF n_issues = 0 THEN [verdict |-> "warnings", rc |-> 0]
    ELSE [verdict |-> "issues", rc |-> 1]

\* lines 418-422
accounts(tv) ==
    << [name |-> "Management", id |-> Get(tv, "management_account_id", ""), assume |-> None],
       [name |-> "Log Archive", id |-> Get(tv, "log_archive_account_id", ""),
        assume |-> Get(tv, "log_archive_account_id", "")],
       [name |-> "Audit", id |-> Get(tv, "audit_account_id", ""),
        assume |-> Get(tv, "audit_account_id", "")] >>

\* what the services may answer the Verifier
ServiceAccessResponses ==
    {Ok({"guardduty.amazonaws.com", "config.amazonaws.com"}), Ok({"config.amazonaws.com"})}
    \cup Failures
AdminListResponses(audit) == {Ok(<<>>), Ok(<<audit>>), Ok(<<OtherId>>)} \cup Failures
DetectorListResponses == {Ok(<<>>), Ok(<<"d-1">>)} \cup Failures
OrgConfigResponses == {Ok(v) : v \in OrgConfigValues} \cup Failures
GetDetectorResponses ==
    {Ok(("Status" :> "ENABLED") @@ ("S3Logs" :> "ENABLED") @@ ("Kubernetes" :> "ENABLED")
        @@ ("MalwareProtection" :> "ENABLED")),
     Ok(("Status" :> "ENABLED") @@ ("S3Logs" :> "DISABLED")),
     Ok("Status" :> "DISABLED"), Ok(EmptyDict)} \cup Failures
DestinationListResponses ==
    {Ok(<<>>),
     Ok(<<[DestinationType |-> "S3", DestinationId |-> "dest-1", Status |-> "PUBLISHING"]>>),
     Ok(<<[DestinationType |-> "S3", DestinationId |-> "dest-1",
           Status |-> "UNABLE_TO_PUBLISH_FIX_DESTINATION_PROPERTY"]>>),
     Ok(<<[DestinationType |-> "S3", DestinationId |-> "dest-1"]>>)} \cup Failures
DestinationDetailResponses ==
    {Ok("DestinationArn" :> "arn:aws:s3:::acme-findings"), Ok(EmptyDict)} \cup Failures

NoResult == [error |-> None]
NoProbe == [dimension |-> "", region |-> "", account |-> "", identity |-> "", bucket |-> ""]
Probe(dim, region, account, identity, bucket) ==
    [dimension |-> dim, region |-> region, account |-> account, identity |-> identity,
     bucket |-> bucket]

InitVerifyIdle ==
    /\ v_pc = "idle" /\ v_i = 1 /\ v_a = 1
    /\ issues = 0 /\ warnings = 0
    /\ admin_ok = 0 /\ admin_missing = 0 /\ admin_wrong = 0 /\ admin_errors = 0
    /\ org_ok = 0 /\ org_partial = 0 /\ org_missing = 0 /\ org_errors = 0
    /\ det_ok = 0 /\ det_missing = 0 /\ det_errors = 0
    /\ pub_ok = 0 /\ pub_unhealthy = 0 /\ pub_missing = 0 /\ pub_errors = 0
    /\ result = NoResult /\ probe = NoProbe
    /\ findings = 0 /\ verdict = "" /\ v_rc = -1

InitVerify ==
    /\ v_pc = "load" /\ v_i = 1 /\ v_a = 1
    /\ tfvars \in VerifyTfvarsChoices
    /\ issues = 0 /\ warnings = 0
    /\ admin_ok = 0 /\ admin_missing = 0 /\ admin_wrong = 0 /\ admin_errors = 0
    /\ org_ok = 0 /\ org_partial = 0 /\ org_missing = 0 /\ org_errors = 0
    /\ det_ok = 0 /\ det_missing = 0 /\ det_errors = 0
    /\ pub_ok = 0 /\ pub_unhealthy = 0 /\ pub_missing = 0 /\ pub_errors = 0
    /\ result = NoResult /\ probe = NoProbe
    /\ findings = 0 /\ verdict = "" /\ v_rc = -1

AuditOf(tv) == Get(load_tfvars(tv).val, "audit_account_id", "")

adminTallies == <<admin_ok, admin_missing, admin_wrong, admin_errors>>
orgTallies   == <<org_ok, org_partial, org_missing, org_errors>>
detTallies   == <<det_ok, det_missing, det_errors>>
pubTallies   == <<pub_ok, pub_unhealthy, pub_missing, pub_errors>>

\* a call raised something that is no ClientError: the run ends with a traceback
Crash(dim, region, account) ==
    /\ findings + 1 <= MaxFindings
    /\ findings' = findings + 1
    /\ v_pc' = "crashed" /\ v_rc' = 1
    /\ probe' = Probe(dim, region, account, "", "crashed")
    /\ UNCHANGED <<v_i, v_a, issues, warnings, tallyVars, result, verdict>>

Cost(bucket) == IF bucket = "ok" THEN 0 ELSE 1

\* the answer of a call that is made; one that is not made answers nothing
Asked(made, answers, unasked) == IF made THEN answers ELSE {unasked}

HasDetector(dets) == dets.kind = "ok" /\ dets.val # <<>>

\* main, lines 311-328
V_Load ==
    /\ v_pc = "load"
    /\ IF load_tfvars(tfvars).kind # "ok"
       THEN v_pc' = "crashed" /\ v_rc' = 1 /\ verdict' = verdict
       ELSE IF ~Truthy(AuditOf(tfvars))
       THEN v_pc' = "done" /\ v_rc' = 1 /\ verdict' = "config_error"
       ELSE v_pc' = "service" /\ v_rc' = v_rc /\ verdict' = verdict
    /\ issues' = 0 /\ warnings' = 0
    /\ UNCHANGED <<v_i, v_a, tallyVars, result, probe, findings>>
    /\ UNCHANGED <<discVars, tfvars, syncVars>>

\* main, lines 330-348
V_ServiceAccess ==
    /\ v_pc = "service"
    /\ \E resp \in ServiceAccessResponses :
         IF resp.kind = "exception" THEN Crash("service_access", "", "Management")
         ELSE LET res == check_service_access(resp)
                  b   == classify_service(res)
              IN
              /\ findings + Cost(b) <= MaxFindings
              /\ findings' = findings + Cost(b)
              /\ result' = res
              /\ probe' = Probe("service_access", "", "Management", "management", b)
              /\ issues' = issues + service_issues(b)
              /\ v_pc' = "admin" /\ v_i' = 1
              /\ UNCHANGED <<v_a, warnings, tallyVars, verdict, v_rc>>
    /\ UNCHANGED <<discVars, tfvars, syncVars>>

\* main, lines 350-361: one region of the delegated-admin loop
V_Admin ==
    /\ v_pc = "admin" /\ v_i <= NumRegions
    /\ \E resp \in AdminListResponses(AuditOf(tfvars)) :
         IF resp.kind = "exception" THEN Crash("delegated_admin", ALL_REGIONS[v_i], "Management")
         ELSE LET res == check_delegated_admin(resp, AuditOf(tfvars))
                  b   == classify_admin(res)
              IN
              /\ findings + Cost(b) <= MaxFindings
              /\ findings' = findings + Cost(b)
              /\ result' = res
              /\ probe' = Probe("delegated_admin", ALL_REGIONS[v_i], "Management", "management", b)
              /\ admin_errors' = admin_errors + (IF b = "error" THEN 1 ELSE 0)
              /\ admin_ok' = admin_ok + (IF b = "ok" THEN 1 ELSE 0)
              /\ admin_wrong' = admin_wrong + (IF b = "wrong" THEN 1 ELSE 0)
              /\ admin_missing' = admin_missing + (IF b = "missing" THEN 1 ELSE 0)
              /\ issues' = issues + region_issues(b)
              /\ v_i' = v_i + 1
              /\ v_pc' = (IF v_i = NumRegions THEN "admin_print" ELSE "admin")
              /\ UNCHANGED <<v_a, warnings, orgTallies, detTallies, pubTallies, verdict, v_rc>>
    /\ UNCHANGED <<discVars, tfvars, syncVars>>

\* the tallies of a dimension are printed (lines 363-370, 408-415, 445-450, 476-485)
VPrint(here, after) ==
    /\ v_pc = here
    /\ v_pc' = after
    /\ v_i' = 1
    /\ probe' = NoProbe
    /\ UNCHANGED <<v_a, issues, warnings, tallyVars, result, findings, verdict, v_rc>>
    /\ UNCHANGED <<discVars, tfvars, syncVars>>

V_AdminPrint == VPrint("admin_print", "org")

\* main, lines 381-406 with check_org_config: one region of the loop
V_OrgConfig ==
    /\ v_pc = "org" /\ v_i <= NumRegions
    /\ \E sess \in SessionResponses :
       \E dets \in Asked(sess.kind # "exception", DetectorListResponses, Ok(<<>>)) :
       \E orgcfg \in Asked(HasDetector(dets), OrgConfigResponses, Ok(EmptyDict)) :
         IF sess.kind = "exception" \/ dets.kind = "exception"
            \/ (dets.kind = "ok" /\ dets.val # <<>> /\ orgcfg.kind = "exception")
         THEN Crash("org_config", ALL_REGIONS[v_i], "Audit")
         ELSE LET res == check_org_config(dets, orgcfg)
                  b   == classify_org(res)
              IN
              /\ findings + Cost(b) <= MaxFindings
              /\ findings' = findings + Cost(b)
              /\ result' = res
              /\ probe' = Probe("org_config", ALL_REGIONS[v_i], "Audit",
                                client_identity("Audit", AuditOf(tfvars), sess), b)
              /\ org_errors' = org_errors + (IF b = "error" THEN 1 ELSE 0)
              /\ org_missing' = org_missing + (IF b = "missing" THEN 1 ELSE 0)
              /\ org_ok' = org_ok + (IF b = "ok" THEN 1 ELSE 0)
              /\ org_partial' = org_partial + (IF b = "partial" THEN 1 ELSE 0)
              /\ issues' = issues + region_issues(b)
              /\ warnings' = warnings + region_warnings(b)
              /\ v_i' = v_i + 1
              /\ v_pc' = (IF v_i = NumRegions THEN "org_print" ELSE "org")
              /\ UNCHANGED <<v_a, adminTallies, detTallies, pubTallies, verdict, v_rc>>
    /\ UNCHANGED <<discVars, tfvars, syncVars>>

V_OrgPrint == VPrint("org_print", "det_begin")

\* main, lines 424-432: the next account of the detector check, or on to check 5
V_DetBegin ==
    /\ v_pc = "det_begin"
    /\ IF v_a > Len(accounts(load_tfvars(tfvars).val))
       THEN /\ v_pc' = "pub" /\ v_a' = v_a
            /\ UNCHANGED detTallies
       ELSE IF ~Truthy(accounts(load_tfvars(tfvars).val)[v_a].id)
            THEN /\ v_pc' = "det_begin" /\ v_a' = v_a + 1
                 /\ UNCHANGED detTallies
            ELSE /\ v_pc' = "det" /\ v_a' = v_a
                 /\ det_ok' = 0 /\ det_missing' = 0 /\ det_errors' = 0
    /\ v_i' = 1
    /\ probe' = NoProbe
    /\ UNCHANGED <<issues, warnings, adminTallies, orgTallies, pubTallies, result,
                   findings, verdict, v_rc>>
    /\ UNCHANGED <<discVars, tfvars, syncVars>>

\* main, lines 434-443 with check_detector: one region of one account
V_Detector ==
    /\ v_pc = "det" /\ v_i <= NumRegions
    /\ LET acct == accounts(load_tfvars(tfvars).val)[v_a] IN
       \E sess \in Asked(Truthy(acct.assume), SessionResponses, Ok("creds")) :
       \E dets \in Asked(sess.kind # "exception", DetectorListResponses, Ok(<<>>)) :
       \E det \in Asked(HasDetector(dets), GetDetectorResponses, Ok(EmptyDict)) :
         /\ IF sess.kind = "exception" \/ dets.kind = "exception"
               \/ (dets.kind = "ok" /\ dets.val # <<>> /\ det.kind = "exception")
            THEN Crash("detector", ALL_REGIONS[v_i], acct.name)
            ELSE LET res == check_detector(dets, det)
                     b   == classify_detector(res)
                 IN
                 /\ findings + Cost(b) <= MaxFindings
                 /\ findings' = findings + Cost(b)
                 /\ result' = res
                 /\ probe' = Probe("detector", ALL_REGIONS[v_i], acct.name,
                                   client_identity(acct.name, acct.assume, sess), b)
                 /\ det_errors' = det_errors + (IF b = "error" THEN 1 ELSE 0)
                 /\ det_ok' = det_ok + (IF b = "ok" THEN 1 ELSE 0)
                 /\ det_missing' = det_missing + (IF b = "missing" THEN 1 ELSE 0)
                 /\ issues' = issues + region_issues(b)
                 /\ v_i' = v_i + 1
                 /\ v_pc' = (IF v_i = NumRegions THEN "det_print" ELSE "det")
                 /\ UNCHANGED <<v_a, warnings, adminTallies, orgTallies, pubTallies,
                                verdict, v_rc>>
    /\ UNCHANGED <<discVars, tfvars, syncVars>>

\* main, lines 445-450, and the loop over accounts moves on
V_DetPrint ==
    /\ v_pc = "det_print"
    /\ v_pc' = "det_begin"
    /\ v_a' = v_a + 1
    /\ v_i' = 1
    /\ probe' = NoProbe
    /\ UNCHANGED <<issues, warnings, tallyVars, result, findings, verdict, v_rc>>
    /\ UNCHANGED <<discVars, tfvars, syncVars>>

\* main, lines 460-474 with check_publishing_destination: one region
V_PubDest ==
    /\ v_pc = "pub" /\ v_i <= NumRegions
    /\ \E sess \in SessionResponses :
       \E dets \in Asked(sess.kind # "exception", DetectorListResponses, Ok(<<>>)) :
       \E dsts \in Asked(HasDetector(dets), DestinationListResponses, Ok(<<>>)) :
       \E detail \in Asked(dsts.kind = "ok" /\ first_s3(dsts.val) # 0,
                           DestinationDetailResponses, Ok(EmptyDict)) :
         IF sess.kind = "exception" \/ dets.kind = "exception"
            \/ (dets.kind = "ok" /\ dets.val # <<>> /\ dsts.kind = "exception")
            \/ (dets.kind = "ok" /\ dets.val # <<>> /\ dsts.kind = "ok"
                /\ first_s3(dsts.val) # 0 /\ detail.kind = "exception")
         THEN Crash("publishing_destination", ALL_REGIONS[v_i], "Audit")
         ELSE LET res == check_publishing_destination(dets, dsts, detail)
                  b   == classify_pub(res)
              IN
              /\ findings + Cost(b) <= MaxFindings
              /\ findings' = findings + Cost(b)
              /\ result' = res
              /\ probe' = Probe("publishing_destination", ALL_REGIONS[v_i], "Audit",
                                client_identity("Audit", AuditOf(tfvars), sess), b)
              /\ pub_errors' = pub_errors + (IF b = "error" THEN 1 ELSE 0)
              /\ pub_missing' = pub_missing + (IF b = "missing" THEN 1 ELSE 0)
              /\ pub_unhealthy' = pub_unhealthy + (IF b = "unhealthy" THEN 1 ELSE 0)
              /\ pub_ok' = pub_ok + (IF b = "ok" THEN 1 ELSE 0)
              /\ issues' = issues + region_issues(b)
              /\ v_i' = v_i + 1
              /\ v_pc' = (IF v_i = NumRegions THEN "pub_print" ELSE "pub")
              /\ UNCHANGED <<v_a, warnings, adminTallies, orgTallies, detTallies,
                             verdict, v_rc>>
    /\ UNCHANGED <<discVars, tfvars, syncVars>>

V_PubPrint == VPrint("pub_print", "summary")

\* main, lines 487-517
V_Summary ==
    /\ v_pc = "summary"
    /\ verdict' = final_verdict(issues, warnings).verdict
    /\ v_rc' = final_verdict(issues, warnings).rc
    /\ v_pc' = "done"
    /\ probe' = NoProbe
    /\ UNCHANGED <<v_i, v_a, issues, warnings, tallyVars, result, findings>>
    /\ UNCHANGED <<discVars, tfvars, syncVars>>

NextVerify ==
    \/ V_Load \/ V_ServiceAccess
    \/ V_Admin \/ V_AdminPrint
    \/ V_OrgConfig \/ V_OrgPrint
    \/ V_DetBegin \/ V_Detector \/ V_DetPrint
    \/ V_PubDest \/ V_PubPrint
    \/ V_Summary

(***************************************************************************)
(* Specifications: one per program.                                        *)
(***************************************************************************)
\* each program starts with the other two not running
DiscoveryInit == InitDiscovery /\ tfvars = NoFile /\ InitSyncIdle /\ InitVerifyIdle
SyncInit      == InitDiscoveryIdle /\ InitSync /\ InitVerifyIdle
VerifyInit    == InitDiscoveryIdle /\ InitSyncIdle /\ InitVerify

SpecDiscovery == DiscoveryInit /\ [][NextDiscovery]_vars

SpecSync == SyncInit /\ [][NextSync]_vars

SpecVerify == VerifyInit /\ [][NextVerify]_vars

(***************************************************************************)
(* Claims about discover.py (SpecDiscovery)                                *)
(***************************************************************************)
SuppliesStr(d, k) == k \in DOMAIN d /\ d[k] # ""
SuppliesTags(d)   == "tags" \in DOMAIN d /\ d["tags"] # {}

\* C1: merge precedence.  For each of primary_region, audit_account_id and
\* tags: when the shared store supplies a non-empty value and the operator
\* config a conflicting one, the effective value is the shared store's; when
\* only the operator config supplies one, it is the operator's; when neither
\* does, it is the default (us-east-1, empty, empty).
C1_MergePrecedence ==
    merged # NoMerge =>
      /\ \A k \in {"primary_region", "audit_account_id"} :
           LET dflt == IF k = "primary_region" THEN DefaultRegion ELSE "" IN
           /\ (SuppliesStr(ssm_config, k) /\ SuppliesStr(config, k)
               /\ config[k] # ssm_config[k]) => merged[k] = ssm_config[k]
           /\ (SuppliesStr(config, k) /\ ~SuppliesStr(ssm_config, k))
                 => merged[k] = config[k]
           /\ (~SuppliesStr(config, k) /\ ~SuppliesStr(ssm_config, k))
                 => merged[k] = dflt
      /\ (SuppliesTags(ssm_config) /\ SuppliesTags(config)
          /\ config["tags"] # ssm_config["tags"]) => merged.custom_tags = ssm_config["tags"]
      /\ (SuppliesTags(config) /\ ~SuppliesTags(ssm_config))
            => merged.custom_tags = config["tags"]
      /\ (~SuppliesTags(config) /\ ~SuppliesTags(ssm_config)) => merged.custom_tags = {}

(***************************************************************************)
(* Claims about state_sync.py (SpecSync)                                   *)
(***************************************************************************)
ImportCount == Cardinality({i \in DOMAIN calls : calls[i].op = "terraform_import"})

CountedTotal == imported_count + skipped_count + failed_count

\* C2: state-index precedence.  For every address in the snapshot taken at
\* pass start no session acquisition, probe or import is issued during the
\* pass, and the address is counted as already-tracked: by the end of the
\* pass as many addresses were counted already-tracked as the snapshot holds.
C2_StateIndexPrecedence ==
    /\ \A i \in DOMAIN calls : calls[i].addr \notin state_resources
    /\ outcome.addr \in state_resources => outcome.result = "skipped"
    /\ s_pc = "complete" => tracked_seen = Cardinality(state_resources)

\* C3: retry bound.  With RetryLimit = IMPORT_RETRIES, a target whose import
\* fails transiently RetryLimit - 1 times and then succeeds is recorded as
\* imported, one whose import fails RetryLimit times is recorded as failed,
\* and terraform import is never run more than RetryLimit times for a target.
C3_RetryBound ==
    /\ ImportCount <= IMPORT_RETRIES
    /\ ImportCount > 0 =>
         /\ ((\A k \in 1..(IMPORT_RETRIES - 1) : outcome.answers[k] # "good")
             /\ outcome.answers[IMPORT_RETRIES] = "good")
               => outcome.result = "imported"
         /\ (\A k \in 1..IMPORT_RETRIES : outcome.answers[k] # "good")
               => outcome.result = "failed"

\* a target imported on the last allowed attempt
C3_RetryThenSuccess ==
    /\ ImportCount = IMPORT_RETRIES
    /\ \A k \in 1..(IMPORT_RETRIES - 1) : outcome.answers[k] # "good"
    /\ outcome.answers[IMPORT_RETRIES] = "good"
    /\ outcome.result = "imported"
    /\ outcome.addr \in tfstate

\* the resource behind an address is tracked in the state or known to exist
ResourceKnown(addr) ==
    addr \in tfstate \/ (addr \in GdAddrs /\ world[addr] = "present")

\* C4: idempotence.  In a second run after a first run that ran to its end,
\* with nothing changed in AWS in between, no import is performed (the
\* imported counter stays 0) and every target whose resource exists is
\* recorded as already-tracked.  The code breaks it: a failed
\* `terraform state list` is read as an empty state (get_state_resources,
\* lines 62-67) and tracked targets are probed and imported again.
C4_Idempotence ==
    (s_run = "second" /\ first_run # "crashed") =>
      /\ imported_count = 0
      /\ ImportCount = 0
      /\ ResourceKnown(outcome.addr) => outcome.result = "skipped"

\* C5: matrix completeness.  For every category and every (account, region)
\* pair of it exactly one outcome is recorded: no target is processed without
\* one, and the counters of a category add up to its number of pairs.
C5_MatrixCompleteness ==
    /\ outcome.addr \in GdAddrs => outcome.result # "none"
    /\ s_pc = "admin_summary" => CountedTotal = NumRegions
    /\ s_pc = "det_summary" => CountedTotal = Len(accounts_to_sync("")) * NumRegions
    /\ s_pc = "pub_summary" => CountedTotal = NumRegions

\* C6: state index overlay.  Once the import of an address has succeeded, the
\* in-memory state index contains the address.
C6_StateIndexOverlay ==
    outcome.result = "imported" => resource_exists_in_state(outcome.addr, state_resources)

(***************************************************************************)
(* Claims about verify-guardduty.py (SpecVerify)                           *)
(***************************************************************************)
MissingTallies == <<admin_missing, org_missing, det_missing, pub_missing>>

\* C7: error classification.  In each of the five dimensions a check that
\* returns an API error adds nothing to the issue list, nothing to the
\* warning list and nothing to a missing tally; it increments the error
\* tally of its dimension only.
C7_ErrorOnlyErrorTally ==
    [][ probe'.bucket = "error" =>
          /\ issues' = issues
          /\ warnings' = warnings
          /\ MissingTallies' = MissingTallies
          /\ probe'.dimension = "delegated_admin" => admin_errors' = admin_errors + 1
          /\ probe'.dimension = "org_config" => org_errors' = org_errors + 1
          /\ probe'.dimension = "detector" => det_errors' = det_errors + 1
          /\ probe'.dimension = "publishing_destination" => pub_errors' = pub_errors + 1
      ]_vars

\* C8: absence classification.  When the audit account has no detector in a
\* region (no API error occurred), the org auto-enable check and the
\* publishing-destination check of that region count as missing and add an
\* issue; they do not count as errors.
C8_AbsentIsMissing ==
    [][ (probe'.dimension \in {"org_config", "publishing_destination"}
         /\ result'.error = "No detector found") =>
          /\ issues' = issues + 1
          /\ org_errors' = org_errors /\ pub_errors' = pub_errors
          /\ probe'.dimension = "org_config" => org_missing' = org_missing + 1
          /\ probe'.dimension = "publishing_destination" => pub_missing' = pub_missing + 1
      ]_vars

EnabledFeatures(res) ==
    {f \in {"auto_enable", "s3", "k8s", "malware"} :
        \/ f = "auto_enable" /\ res.auto_enable = "ALL"
        \/ f = "s3" /\ res.s3_auto_enable
        \/ f = "k8s" /\ res.k8s_auto_enable
        \/ f = "malware" /\ res.malware_auto_enable}

\* an organization configuration with some but not all of the four features
PartialOrg(res) ==
    /\ res.error = None /\ res.configured
    /\ Cardinality(EnabledFeatures(res)) \in 1..3

\* the last check was of such an organization configuration
OrgPartialSeen ==
    probe.dimension = "org_config" /\ probe.bucket # "crashed" /\ PartialOrg(result)

\* C9: partial classification.  A region whose organization configuration
\* has some but not all of the four sub-features enabled is counted as
\* partial, adds exactly one warning and adds no issue.
C9_PartialIsWarning ==
    [][ OrgPartialSeen' =>
          /\ org_partial' = org_partial + 1
          /\ warnings' = warnings + 1
          /\ issues' = issues
          /\ org_ok' = org_ok /\ org_missing' = org_missing /\ org_errors' = org_errors
      ]_vars

\* a region with three of the four features, counted partial with a warning
C9_ThreeOfFour ==
    /\ probe.dimension = "org_config" /\ probe.bucket = "partial"
    /\ result.configured /\ Cardinality(EnabledFeatures(result)) = 3
    /\ org_partial = 1 /\ warnings = 1 /\ issues = 0

\* C10 as stated: a run that has exited did so with a non-zero code if and
\* only if its issue list is non-empty.
C10_VerdictIffIssues ==
    v_rc # -1 => (v_rc # 0 <=> issues > 0)

\* C10, amended: a run that reaches its summary exits non-zero if and only if
\* the issue list is non-empty, reports pass-with-warnings on warnings alone
\* and a clean pass on neither, whatever the error tallies; a run that finds
\* no audit account ID, or that is ended by an uncaught exception, exits
\* non-zero without having checked anything.
C10_VerdictAtSummary ==
    /\ (v_pc = "done" /\ verdict # "config_error") =>
         /\ v_rc # 0 <=> issues > 0
         /\ issues > 0 => verdict = "issues"
         /\ (issues = 0 /\ warnings > 0) => (verdict = "warnings" /\ v_rc = 0)
         /\ (issues = 0 /\ warnings = 0) => (verdict = "clean" /\ v_rc = 0)
    /\ (v_pc = "done" /\ verdict = "config_error") => (v_rc = 1 /\ issues = 0)
    /\ v_pc = "crashed" => v_rc = 1

\* a pass with warnings whose error tallies are not all zero
C10_WarningsDespiteErrors ==
    /\ v_pc = "done" /\ verdict = "warnings" /\ v_rc = 0
    /\ issues = 0 /\ warnings > 0
    /\ admin_errors + org_errors + det_errors + pub_errors > 0

(***************************************************************************)
(* Further claims about discover.py (SpecDiscovery)                        *)
(***************************************************************************)
\* the merge has run and neither source supplied an audit account ID
AuditNowhere ==
    /\ merged # NoMerge
    /\ ~SuppliesStr(config, "audit_account_id")
    /\ ~SuppliesStr(ssm_config, "audit_account_id")

\* C11: scenario B.  When audit_account_id is absent from both the operator
\* config and the shared store, discovery aborts with a non-zero return
\* before any target processing: no delegated-admin listing, no role
\* assumption, no detector or organization-configuration probe, and no
\* hand-off file.
C11_NoAuditAborts ==
    AuditNowhere =>
      /\ d_pc \in {"check_audit", "done"}
      /\ d_calls \subseteq {"get_caller_identity", "get_parameter"}
      /\ d_files = {} /\ ~tfvars.exists
      /\ d_pc = "done" => d_rc = 1

\* a run that ended on the missing audit account ID
C11_AbortedRun ==
    AuditNowhere /\ d_pc = "done" /\ d_rc = 1 /\ d_files = {}

(***************************************************************************)
(* Further claims about state_sync.py (SpecSync)                           *)
(***************************************************************************)
OrgConfigAddrs == {OrgConfigAddr(r) : r \in Regions}

\* C12: auto-enable exclusion.  In every pass no import (and no other call)
\* is issued for an organization-configuration address; the live auto-enable
\* value is never read, so this holds whatever it is.
C12_NoOrgConfigImport ==
    /\ \A i \in DOMAIN calls :
         /\ calls[i].addr \notin OrgConfigAddrs
         /\ calls[i].op = "terraform_import" => calls[i].addr \in AllAddrs
         /\ calls[i].op # "describe_organization_configuration"
    /\ outcome.addr \notin OrgConfigAddrs

\* a first pass over an empty state that imported every resource it handles
C12_EverythingElseImported ==
    /\ s_run = "first" /\ s_pc = "complete" /\ state_resources = {} /\ list_ok
    /\ tfstate = AllAddrs

AuditKnown == Truthy(get_account_ids_from_tfvars(tfvars).audit)

\* C13: no import with an empty identifier.  terraform import is never run
\* with an empty resource ID, and when the hand-off variables hold no audit
\* account ID the delegated-admin, detector and publishing-destination
\* categories issue no session acquisition, probe or import at all.
C13_NoEmptyIdentifier ==
    /\ \A i \in DOMAIN calls : calls[i].op = "terraform_import" => calls[i].arg # ""
    /\ ~AuditKnown =>
         /\ \A i \in DOMAIN calls : calls[i].addr \notin GdAddrs
         /\ outcome.addr \notin GdAddrs
         /\ s_pc \notin {"admin", "det", "pub"}

\* a pass without audit account ID that imported the log group and nothing else
C13_OnlyLogGroupImported ==
    /\ ~AuditKnown /\ s_run = "first" /\ s_pc = "complete"
    /\ state_resources = {} /\ list_ok
    /\ tfstate = {LogGroupAddr}

\* C14: a missing audit account ID is fatal at startup.  When the hand-off
\* variables hold no audit account ID the pass issues no import of any
\* resource (the log group included), enters no category, and ends with a
\* non-success status.
C14_MissingAuditIsFatal ==
    ~AuditKnown =>
      /\ \A i \in DOMAIN calls : calls[i].op # "terraform_import"
      /\ s_pc \in {"main", "done", "crashed"}
      /\ s_pc = "done" => s_rc # 0

\* C15: a run always completes with a summary.  Once a Reconciler pass is
\* past its startup no step ends it without a summary: it never crashes on a
\* target, and each category is left only through its summary line of
\* imported / already-in-state / failed counters.
C15_AlwaysSummary ==
    [][/\ s_pc' = "crashed" => s_pc = "main"
       /\ s_pc' = "det_begin" => s_pc = "admin_summary"
       /\ s_pc' = "pub_begin" => s_pc = "det_summary"
       /\ s_pc' = "complete" => s_pc = "pub_summary"]_vars

\* C16: session failure means skip the target.  No detector,
\* organization-configuration or publishing-destination probe whose result is
\* tallied for the audit or log-archive account is executed under the
\* caller's own (management) identity.
C16_NoFallbackToCaller ==
    (/\ probe.dimension \in {"org_config", "detector", "publishing_destination"}
     /\ probe.account \in {"Audit", "Log Archive"}
     /\ probe.bucket # "crashed")
      => probe.identity # "management"

SummaryOf(pc) ==
    CASE pc = "admin" -> "admin_summary"
      [] pc = "det"   -> "det_summary"
      [] pc = "pub"   -> "pub_summary"
      [] OTHER        -> pc

\* C17: a single target's failure never halts the sweep.  Whatever the
\* outcome of one target of a category loop of the Reconciler (session
\* failure, probe error, import out of retries), the next step is the next
\* target of that category or its summary, from which the later categories
\* follow.
C17_SweepNeverHalts ==
    [][(s_pc \in {"admin", "det", "pub"}) => (s_pc' \in {s_pc, SummaryOf(s_pc)})]_vars

Rank(pc) ==
    CASE pc \in {"idle", "main"}                         -> 0
      [] pc = "log_group"                                -> 1
      [] pc \in {"admin_begin", "admin", "admin_summary"} -> 2
      [] pc \in {"det_begin", "det", "det_summary"}       -> 3
      [] pc \in {"pub_begin", "pub", "pub_summary"}       -> 4
      [] OTHER                                           -> 5

CategoryAddrs(pc) ==
    CASE pc = "log_group" -> {LogGroupAddr}
      [] pc = "admin"     -> AdminAddrs
      [] pc = "det"       -> DetAddrs
      [] pc = "pub"       -> PubAddrs
      [] OTHER            -> {}

TargetAddr(pc, a, i) ==
    CASE pc = "admin" -> AdminAddr(ALL_REGIONS[i])
      [] pc = "det"   -> DetAddr(accounts_to_sync("")[a].prefix, ALL_REGIONS[i])
      [] OTHER        -> PubAddr(ALL_REGIONS[i])

\* C18: category order is fixed.  Within a pass the Reconciler moves through
\* log group, delegated admin, detectors, publishing destinations and never
\* back; every probe or import of a step addresses the category the pass is
\* in; and a category loop visits the regions in the order of ALL_REGIONS,
\* from the first to the last.
C18_CategoryOrder ==
    [][/\ (s_pc' # "main") => (Rank(s_pc') >= Rank(s_pc))
       /\ (s_pc' = "main") => (s_pc \in {"done", "crashed"})
       /\ \A i \in DOMAIN calls' :
            (calls'[i].addr # "") => (calls'[i].addr \in CategoryAddrs(s_pc))
       /\ (s_pc \in {"admin_begin", "det_begin", "pub_begin"}) => (s_i' = 1 /\ s_a' = 1)
       /\ (s_pc \in {"admin", "det", "pub"}) =>
            /\ outcome'.addr = TargetAddr(s_pc, s_a, s_i)
            /\ (s_pc' = s_pc) =>
                 \/ s_i' = s_i + 1 /\ s_a' = s_a
                 \/ s_i = NumRegions /\ s_i' = 1 /\ s_a' = s_a + 1
            /\ (s_pc' = SummaryOf(s_pc)) => (s_i = NumRegions)]_vars

\* a pass over an empty state that imported every target of every category,
\* standing after the last region of the last category
C18_LastTargetOfLastCategory ==
    /\ s_pc = "pub_summary" /\ s_run = "first"
    /\ outcome.addr = PubAddr(ALL_REGIONS[NumRegions])
    /\ imported_count = NumRegions
    /\ tfstate = AllAddrs /\ state_resources = {}

PlanCalls == {i \in DOMAIN calls : calls[i].op = "terraform_plan_refresh_only"}

\* C19: warm-up.  The refresh-only plan is run only while main starts: once
\* after the state snapshot is taken and before any import when the snapshot
\* is empty, not at all when it is not; whether the plan succeeds or fails,
\* the pass goes on to the log group and the categories.
C19_WarmUp ==
    /\ (s_pc # "log_group") => (PlanCalls = {})
    /\ (s_pc = "log_group") =>
         /\ Cardinality(PlanCalls) = (IF state_resources = {} THEN 1 ELSE 0)
         /\ \A i \in PlanCalls :
              /\ \E j \in 1..(i - 1) : calls[j].op = "terraform_state_list"
              /\ calls[i].arg \in {"successful", "warnings"}
         /\ \A i \in DOMAIN calls : calls[i].op # "terraform_import"

\* the warm-up failed and the pass stands at its first category
C19_FailedWarmUpContinues ==
    /\ s_pc = "log_group" /\ state_resources = {} /\ list_ok
    /\ \E i \in PlanCalls : calls[i].arg = "warnings"

\* C20: already-managed is success.  Whenever the k-th terraform import of a
\* target is answered with "Resource already managed" (terraform works and
\* the state holds the address, from before the step or through an earlier
\* attempt that was killed after writing), on the first attempt or on a
\* retry, that attempt is the last one, nothing follows it, the target is
\* recorded as imported and the failed counter does not move.
C20_AlreadyManagedIsSuccess ==
    [][\A k \in 1..IMPORT_RETRIES :
         (/\ ImportCount' >= k
          /\ outcome'.answers[k] = "good"
          /\ \/ outcome'.addr \in tfstate
             \/ \E j \in 1..(k - 1) : outcome'.answers[j] = "late")
           => /\ ImportCount' = k
              /\ calls'[Len(calls')].op = "terraform_import"
              /\ outcome'.result = "imported"
              /\ failed_count' = failed_count]_vars

\* a target whose first import was killed after writing the state and whose
\* retry was answered "already managed"
C20_AlreadyManagedOnRetry ==
    /\ outcome.addr \in GdAddrs
    /\ ImportCount = IMPORT_RETRIES
    /\ outcome.answers[1] = "late"
    /\ outcome.answers[IMPORT_RETRIES] = "good"
    /\ outcome.result = "imported" /\ imported_count > 0

SleepCalls == {i \in DOMAIN calls : calls[i].op = "sleep"}

\* C21: import is retried only on transient failure.  An import that fails
\* with an error no repetition cures is not attempted again, and the delay
\* is taken only between two attempts of the same target, never after the
\* last one.
C21_RetryOnlyTransient ==
    /\ \A k \in 1..ImportCount : outcome.answers[k] = "invalid" => ImportCount = k
    /\ \A i \in SleepCalls :
         /\ i > 1 /\ calls[i - 1].op = "terraform_import"
         /\ i < Len(calls) /\ calls[i + 1].op = "terraform_import"

\* the buckets of each per-region dimension: ok, error, then the buckets
\* that are reported (0 stands for a bucket the dimension does not have)
Tallies ==
    [admin |-> <<admin_ok, admin_errors, admin_wrong, admin_missing>>,
     org   |-> <<org_ok, org_errors, org_partial, org_missing>>,
     det   |-> <<det_ok, det_errors, 0, det_missing>>,
     pub   |-> <<pub_ok, pub_errors, pub_unhealthy, pub_missing>>]

Counted(t) == t[1] + t[2] + t[3] + t[4]
Reported(t) == t[3] + t[4]
PrintOf(d) ==
    CASE d = "admin" -> "admin_print"
      [] d = "org"   -> "org_print"
      [] d = "det"   -> "det_print"
      [] OTHER       -> "pub_print"

\* C22: Verifier tally partition.  A region whose check of a per-region
\* dimension returns moves exactly one bucket of that dimension up by one,
\* and issues plus warnings grow by one exactly when that bucket is neither
\* ok nor error; so within a loop the buckets sum to the number of regions
\* visited, and when the tallies of a dimension (for detectors: of an
\* account) are printed they sum to the number of regions.
C22_TallyPartition ==
    [][/\ (v_pc \in DOMAIN Tallies /\ v_pc' # "crashed") =>
            /\ Counted(Tallies'[v_pc]) = Counted(Tallies[v_pc]) + 1
            /\ \A k \in 1..4 : Tallies'[v_pc][k] >= Tallies[v_pc][k]
            /\ (issues' + warnings') - (issues + warnings)
                 = Reported(Tallies'[v_pc]) - Reported(Tallies[v_pc])
            /\ \A d \in DOMAIN Tallies : (d # v_pc) => (Tallies'[d] = Tallies[d])
       /\ \A d \in DOMAIN Tallies :
            /\ (v_pc' = d) => (Counted(Tallies'[d]) = v_i' - 1)
            /\ (v_pc' = PrintOf(d)) => (Counted(Tallies'[d]) = NumRegions)]_vars

\* the organization-configuration tallies are printed with one region
\* partial and one in error
C22_PartialAndError ==
    /\ v_pc = "org_print"
    /\ org_partial = 1 /\ org_errors = 1 /\ org_ok = NumRegions - 2
    /\ warnings = 1

HandOffFiles == {"discovery.json", "bootstrap.auto.tfvars.json"}

GatePassed ==
    /\ Truthy(Get(config, "resource_prefix", ""))
    /\ merged # NoMerge
    /\ Truthy(merged.audit_account_id)
    /\ guardduty_info.guardduty_org_exists
    /\ guardduty_info.guardduty_delegated_admin = merged.audit_account_id

Ended == d_pc \in {"done", "crashed"}

\* C23 as stated: discovery success gate.  Discovery returns 0 and writes
\* the hand-off files only if resource_prefix and the audit account ID are
\* non-empty and the delegated admin found is the audit account; a run that
\* ends on a failing path returns non-zero and has written neither file.
C23_SuccessGate ==
    /\ (d_rc = 0) => (GatePassed /\ d_files = HandOffFiles /\ tfvars.exists)
    /\ (Ended /\ ~GatePassed) => (d_rc > 0)
    /\ (Ended /\ d_rc # 0) => (d_files = {} /\ ~tfvars.exists)

\* C23, amended: discovery returns 0 only past the gate and then has written
\* both files in full; a file is written only past the gate; a run that
\* ends before the gate or at it (missing prefix, missing audit ID, no
\* delegated admin or listing denied, admin mismatch, a traceback) returns
\* non-zero and has written neither file; the one failing run that leaves
\* files behind is the one whose tags cannot be encoded as JSON: non-zero,
\* discovery.json written and the variables file cut short.
C23_GateBeforeWrite ==
    /\ (d_rc = 0) =>
         /\ GatePassed /\ d_pc = "done"
         /\ d_files = HandOffFiles
         /\ tfvars.exists /\ tfvars # TruncatedTfvars
    /\ (d_files # {} \/ tfvars.exists) =>
         /\ GatePassed /\ Ended
         /\ d_files = HandOffFiles /\ tfvars.exists
         /\ (d_rc # 0) => (/\ tfvars = TruncatedTfvars
                           /\ ~json_serializable(merged.custom_tags))
    /\ (Ended /\ ~GatePassed) => (d_rc > 0 /\ d_files = {} /\ ~tfvars.exists)
    /\ (Ended /\ d_rc # 0 /\ json_serializable(merged.custom_tags)) =>
         (d_files = {} /\ ~tfvars.exists)

\* a run that passed the gate and wrote both files
C23_HandOffWritten ==
    /\ d_pc = "done" /\ d_rc = 0 /\ GatePassed
    /\ d_files = HandOffFiles
    /\ tfvars.exists /\ tfvars # TruncatedTfvars
    /\ tfvars.content.audit_account_id = merged.audit_account_id

\* C24: a failed state listing is read as an empty state.  In a pass whose
\* `terraform state list` failed the snapshot is the empty set; the warm-up
\* is run; no target is skipped as already tracked, every target the pass
\* comes to is probed; and a target whose last import is answered "already
\* managed" is counted as imported, not as already in state.
C24_ListFailureIsEmptyState ==
    [][(~list_ok') =>
         /\ state_resources' = {}
         /\ (s_pc' = "log_group") => (Cardinality(PlanCalls') = 1)
         /\ outcome'.result # "skipped" /\ tracked_seen' = 0
         /\ (outcome'.addr \in GdAddrs) => (calls' # <<>>)
         /\ (/\ ImportCount' >= 1
             /\ outcome'.answers[ImportCount'] = "good"
             /\ outcome'.addr \in tfstate)
              => /\ outcome'.result = "imported"
                 /\ skipped_count' = skipped_count
                 /\ (outcome'.addr \in GdAddrs) => (imported_count' = imported_count + 1)]_vars

\* the listing failed over a state that held every address: all
\* delegated-admin targets were imported again and counted as imported
C24_TrackedCountedAsImported ==
    /\ ~list_ok /\ s_run = "first" /\ s_pc = "admin_summary"
    /\ state_resources = {} /\ tfstate = AllAddrs
    /\ imported_count = NumRegions /\ skipped_count = 0

====
